---- MODULE Spec2Model ----
(***************************************************************************)
(* State-machine model of ddukbg/polymarket-analytics:                     *)
(*   - the paginated walks of PolymarketAPI (polymarket_api.py),           *)
(*   - the leaderboard snapshot collector (scrape_leaderboard_snapshot),   *)
(*   - the scheduled job around it (scrape_daily_1200.py),                 *)
(*   - the PortfolioAnalyzer pipeline (polymarket_portfolioAnalyzer.py).   *)
(* Each component has its own specification over the shared variables.     *)
(***************************************************************************)
EXTENDS Integers, Sequences, FiniteSets, TLC

VARIABLES
    \* ---- one call of a paginated walk (polymarket_api.py) ----
    args,                     \* the call's arguments and the size of the server's list
    pc,                       \* "loop" | "done" (returned) | "raised"
    offset,                   \* local offset
    all_records,              \* all_positions / all_trades / all_activities / all_users
    consecutive_old_batches,  \* get_all_closed_positions' early-stopping counter
    sort_by,                  \* the sort_by sent with a request (reassigned by get_all_closed_positions)
    sort_direction,           \* the sort_direction sent with a request
    batch_index,              \* scrape_leaderboard's loop variable i
    req,                      \* the page request issued last
    status,                   \* HTTP status of its response (0: none issued yet)
    nreq,                     \* number of page requests issued
    n429,                     \* number of 429 responses received
    result,                   \* the returned list, once pc = "done"
    \* ---- one call of scrape_leaderboard_snapshot (polymarket_api.py) ----
    snap_args,                \* timeframes and max_retries of the call
    snap_pc,                  \* "idle" | "fetch" | "done" (returned) | "raised"
    current_scrape,           \* number of the (timeframe, category) combination at work
    attempt,                  \* its retry loop's variable
    all_data,                 \* rows collected so far
    failed_scrapes,           \* combinations whose last attempt failed
    store,                    \* the capture date's file snapshots/leaderboard_<date>.csv
    snapshot_df,              \* the returned table, once snap_pc = "done"
    malformed_seen,           \* a response with a malformed entry was received
    \* ---- one call of scrape_with_retry (scrape_daily_1200.py) ----
    job_max_retries,          \* its argument max_retries
    job_pc,                   \* "loop" | "done" (returned) | "raised"
    job_attempt,              \* its loop variable attempt
    job_calls,                \* calls of scrape_leaderboard_snapshot made
    job_result,               \* the returned table, once job_pc = "done"
    \* ---- one PortfolioAnalyzer and the API it talks to (polymarket_portfolioAnalyzer.py) ----
    api,                      \* what the API serves: closed and open positions, trades, failures
    window,                   \* self.start_date / self.end_date (None: not given)
    an_pc,                    \* the stage run_full_analysis runs next, or "done"
    df,                       \* self.df: the position table
    all_trades_df,            \* self.all_trades_df: the trade table
    df_aggregated,            \* process_trades' local df_aggregated
    trade_dfs,                \* self.trade_dfs, in insertion order
    title_mapping,            \* self.title_mapping, in insertion order
    summary_df,               \* self.summary_df
    winning_df,               \* self.winning_df
    losing_df,                \* self.losing_df
    portfolio,                \* what portfolio_summary computed and printed last
    runs                      \* calls of run_full_analysis made on the analyzer

walkVars == <<args, pc, offset, all_records, consecutive_old_batches, sort_by,
              sort_direction, batch_index, req, status, nreq, n429, result>>

snapVars == <<snap_args, snap_pc, current_scrape, attempt, all_data, failed_scrapes,
              store, snapshot_df, malformed_seen>>

anVars == <<api, window, an_pc, df, all_trades_df, df_aggregated, trade_dfs,
            title_mapping, summary_df, winning_df, losing_df, portfolio, runs>>

jobVars == <<job_max_retries, job_pc, job_attempt, job_calls, job_result>>

vars == <<walkVars, snapVars, anVars, jobVars>>

\* what a step of a paginated walk leaves alone
notWalkVars == <<snapVars, anVars, jobVars>>

\* what a step of the snapshot collector leaves alone
notSnapVars == <<walkVars, anVars, jobVars>>

\* what a stage of the analyzer leaves alone
notAnVars == <<walkVars, snapVars, jobVars>>

\* what an attempt of the scheduled job leaves alone: everything but the file
notJobVars == <<walkVars, anVars, snap_args, snap_pc, current_scrape, attempt, all_data,
                failed_scrapes, snapshot_df, malformed_seen>>

-----------------------------------------------------------------------------
(* Python values *)

\* Optional[...] = None
None == -1

\* Python truthiness of an Optional number: None and 0 are both falsy
Truthy(x) == x # None /\ x # 0

Min(a, b) == IF a < b THEN a ELSE b

\* (not lo or ts >= lo) and (not hi or ts <= hi): a bound applies only when truthy
InWindow(ts, lo, hi) == (~Truthy(lo) \/ ts >= lo) /\ (~Truthy(hi) \/ ts <= hi)

-----------------------------------------------------------------------------
(* Program constants *)

POSITIONS_LIMIT == 500
CLOSED_LIMIT == 25
TRADES_LIMIT == 500
ACTIVITY_LIMIT == 500
batch_size == 20
API_MAX_OFFSET == 10000
OLD_BATCHES_STOP == 5
HTTP_OK == 200
HTTP_RATE_LIMITED == 429
HTTP_SERVER_ERROR == 500
\* far_future = pd.Timestamp('2099-12-31'), in days since the epoch (the
\* analyzer's times are kept in days)
far_future == 47481

(* Bounds of the model *)

\* server list sizes cover 0..MaxPages full pages, plus or minus one record
MaxPages == 2
\* the same for the endpoints with small pages (closed positions: 25, leaderboard: 20)
SmallMaxPages == 6
\* at most this many 429 responses in one walk
Max429 == 2
\* records the server holds beyond the offset cap in the largest lists
BeyondCap == 600
\* max_retries is tried from 0 up to this
MaxRetries == 3
\* users a successful scrape_leaderboard call returns
UsersPerScrape == 2
\* closed positions, open positions and trades the API holds for the wallet
MaxClosed == 2
MaxOpen == 1
MaxTrades == 2
\* calls of run_full_analysis on one analyzer
MaxRuns == 2
\* records of each kind the API holds when the runs are repeated
RerunRows == 1
\* trades of a wallet whose trades may match no position
MatchTrades == 2
\* the assets of a wallet whose positions end in every way
MaxAssets == 3
\* the largest max_retries scrape_with_retry is called with
JobMaxRetries == 3
\* the open positions of a wallet with and without end dates
MaxUndated == 2

-----------------------------------------------------------------------------
(* The server: a finite list per endpoint.  A record is its rank in the     *)
(* list; a closed position also carries a timestamp.                        *)

Walks == {"positions", "closed", "trades", "activity", "leaderboard"}

\* the sizes tried for a page size L: around each page boundary
Sizes(L, pages) == {n \in 0..(pages * L + 1) : n % L \in {0, 1, L - 1}}

\* sizes around the offset cap
CapSizes == {API_MAX_OFFSET - 1, API_MAX_OFFSET, API_MAX_OFFSET + BeyondCap}

\* closed positions: N records with timestamps N..1.  Sorted by TIMESTAMP DESC
\* the newest comes first; any other sort key gives another order (oldest first here).
ClosedServer(n, sb, sd) ==
    [k \in 1..n |-> IF sb = "TIMESTAMP" /\ sd = "DESC"
                    THEN [id |-> n - k + 1, timestamp |-> n - k + 1]
                    ELSE [id |-> k, timestamp |-> k]]

\* every other endpoint: records 1..N in the server's order
ListServer(n) == [k \in 1..n |-> k]

\* response.json() of a page request: the slice [offset, offset + limit) of the list
Page(server, off, lim) == SubSeq(server, off + 1, Min(off + lim, Len(server)))

Responses == {HTTP_OK, HTTP_RATE_LIMITED, HTTP_SERVER_ERROR}

-----------------------------------------------------------------------------
(* Arguments of one call.  N is the length of the server's list.            *)

WalkArg(w, n, s, e, sb, mr, t) ==
    [walk |-> w, N |-> n, start_timestamp |-> s, end_timestamp |-> e,
     sort_by |-> sb, sort_direction |-> "DESC", max_results |-> mr, total |-> t,
     filter_type |-> "None", filter_amount |-> None]

\* filter_type / filter_amount pairs tried for get_all_user_trades: filter_type
\* is "None" when not given, filter_amount None when not given
FilterChoices ==
    {<<"None", None>>, <<"CASH", 5>>, <<"CASH", 0>>, <<"CASH", None>>, <<"None", 5>>,
     <<"", 5>>}

\* time windows tried for get_all_closed_positions (None: bound not given)
Windows ==
    {w \in [start : {None, 2, 140}, end : {None, 5, 30}] :
        Truthy(w.start) /\ Truthy(w.end) => w.start <= w.end}

\* max_results values tried for a walk of page size L
MaxResultsChoices(L) == {None, 0, 100, L, L + 100, 2 * L}

WalkArgs ==
    {WalkArg("positions", n, None, None, "CURRENT", None, 0) :
        n \in Sizes(POSITIONS_LIMIT, MaxPages) \cup CapSizes}
    \cup
    {WalkArg("closed", n, w.start, w.end, sb, None, 0) :
        n \in Sizes(CLOSED_LIMIT, SmallMaxPages), w \in Windows,
        sb \in {"REALIZEDPNL", "TIMESTAMP"}}
    \cup
    {WalkArg("trades", n, None, None, "NA", mr, 0) :
        n \in Sizes(TRADES_LIMIT, MaxPages) \cup CapSizes,
        mr \in MaxResultsChoices(TRADES_LIMIT)}
    \cup
    {[WalkArg("trades", n, None, None, "NA", None, 0)
         EXCEPT !.filter_type = f[1], !.filter_amount = f[2]] :
        n \in {0, 1, TRADES_LIMIT}, f \in FilterChoices}
    \cup
    {WalkArg("activity", n, None, None, "TIMESTAMP", mr, 0) :
        n \in Sizes(ACTIVITY_LIMIT, MaxPages) \cup CapSizes,
        mr \in MaxResultsChoices(ACTIVITY_LIMIT)}
    \cup
    {WalkArg("leaderboard", n, None, None, "PNL", None, t) :
        n \in Sizes(batch_size, SmallMaxPages),
        t \in {0, 1, batch_size, batch_size + 5, 2 * batch_size, 5 * batch_size}}

\* the list the walk's endpoint serves for the sort it is asked for
Server(a, sb, sd) ==
    IF a.walk = "closed" THEN ClosedServer(a.N, sb, sd) ELSE ListServer(a.N)

-----------------------------------------------------------------------------
(* Pieces of the walks *)

\* use_early_stopping = bool(start_timestamp or end_timestamp)
use_early_stopping(a) == Truthy(a.start_timestamp) \/ Truthy(a.end_timestamp)

\* num_batches = (total + batch_size - 1) // batch_size
num_batches(total) == (total + batch_size - 1) \div batch_size

\* a walk that advances one record too far after each page
NextOffsetSkips(off, lim) == off + lim + 1

\* a walk that skips every other page
NextOffsetSkipsPage(off, lim) == off + 2 * lim

\* offset += limit
NextOffset(off, lim) == off + lim

\* limit = 500 / limit = 25 / batch_size = 20: the page size of a walk
page_size(w) ==
    CASE w = "positions" -> POSITIONS_LIMIT
      [] w = "closed" -> CLOSED_LIMIT
      [] w = "trades" -> TRADES_LIMIT
      [] w = "activity" -> ACTIVITY_LIMIT
      [] w = "leaderboard" -> batch_size

\* a walk without the offset check
offset_limit_never_reached(off, lim) == FALSE

\* if offset + limit >= 10000 (API max is 10,000)
offset_limit_reached(off, lim) == off + lim >= API_MAX_OFFSET

\* a get_user_trades that sends whatever filter arguments it is given
filter_never_rejected(ft, fa) == FALSE

\* get_user_trades: not (filter_type and filter_amount is not None), but
\* filter_type or filter_amount is not None -> ValueError
filter_rejected(ft, fa) ==
    LET type_given == ft \notin {"None", ""}
        amount_given == fa # None
    IN  ~(type_given /\ amount_given) /\ (type_given \/ amount_given)

\* a test that takes every fetched page for one with records inside the window
batch_has_valid_ignoring_window(batch, lo, hi) == batch # <<>>

\* batch_has_valid = any(... for pos in batch)
batch_has_valid(batch, lo, hi) ==
    \E k \in 1..Len(batch) : InWindow(batch[k].timestamp, lo, hi)

\* a date filter that lets every fetched position through
filtered_positions_unfiltered(positions, lo, hi) == positions

\* the client-side date filter applied to the fetched closed positions
filtered_positions(positions, lo, hi) ==
    SelectSeq(positions, LAMBDA pos : InWindow(pos.timestamp, lo, hi))

\* what get_all_closed_positions returns for the list it fetched
ClosedResult(a, positions) ==
    IF Truthy(a.start_timestamp) \/ Truthy(a.end_timestamp)
    THEN filtered_positions(positions, a.start_timestamp, a.end_timestamp)
    ELSE positions

\* all_trades[:max_results]
Truncate(s, n) == SubSeq(s, 1, Min(n, Len(s)))

\* a handler that re-raises every HTTP error, 429 included
ExceptAlwaysRaises(st) == "raised"

\* a handler that retries every HTTP error, not only 429
ExceptAlwaysRetries(st) == "loop"

\* except requests.exceptions.HTTPError of get_all_user_positions and
\* get_all_closed_positions: 429 -> sleep and continue, otherwise re-raise
ExceptHTTPError(st) == IF st = HTTP_RATE_LIMITED THEN "loop" ELSE "raised"

\* response.raise_for_status() with no handler around it (get_all_user_trades,
\* get_all_user_activity, scrape_leaderboard): every error status propagates
RaiseForStatus(st) == "raised"

\* requests.get(url, params): the request goes out and its status comes back
Issue(st, off, lim) ==
    /\ st = HTTP_RATE_LIMITED => n429 < Max429
    /\ req' = [offset |-> off, limit |-> lim, sort_by |-> sort_by,
               sort_direction |-> sort_direction]
    /\ status' = st
    /\ nreq' = nreq + 1
    /\ n429' = IF st = HTTP_RATE_LIMITED THEN n429 + 1 ELSE n429

\* break, then return: acc is the accumulated list, res the value returned
Return(acc, res) ==
    /\ pc' = "done"
    /\ all_records' = acc
    /\ result' = res
    /\ UNCHANGED offset

\* the next iteration of the while loop, at offset off
Continue(acc, off) ==
    /\ pc' = "loop"
    /\ all_records' = acc
    /\ offset' = off
    /\ UNCHANGED result

\* an HTTP error: handled (the loop goes on unchanged) or raised to the caller
Except(to) ==
    /\ pc' = to
    /\ UNCHANGED <<all_records, offset, result>>

-----------------------------------------------------------------------------
(* The walks: one action is one iteration of the walk's loop *)

\* get_all_user_positions
GetAllUserPositionsStep ==
    /\ pc = "loop" /\ args.walk = "positions"
    /\ \E st \in Responses :
        /\ Issue(st, offset, POSITIONS_LIMIT)
        /\ IF st = HTTP_OK
           THEN LET batch == Page(Server(args, sort_by, sort_direction), offset, POSITIONS_LIMIT)
                    acc == all_records \o batch
                IN  IF batch = <<>> THEN Return(all_records, all_records)
                    ELSE IF Len(batch) < POSITIONS_LIMIT THEN Return(acc, acc)
                    ELSE Continue(acc, NextOffset(offset, POSITIONS_LIMIT))
           ELSE Except(ExceptHTTPError(st))
    /\ UNCHANGED <<args, consecutive_old_batches, sort_by, sort_direction, batch_index>>
    /\ UNCHANGED notWalkVars

\* get_all_closed_positions
GetAllClosedPositionsStep ==
    /\ pc = "loop" /\ args.walk = "closed"
    /\ \E st \in Responses :
        /\ Issue(st, offset, CLOSED_LIMIT)
        /\ IF st = HTTP_OK
           THEN LET batch == Page(Server(args, sort_by, sort_direction), offset, CLOSED_LIMIT)
                    acc == all_records \o batch
                    valid == batch_has_valid(batch, args.start_timestamp, args.end_timestamp)
                    old == IF ~use_early_stopping(args) THEN consecutive_old_batches
                           ELSE IF valid THEN 0 ELSE consecutive_old_batches + 1
                IN  IF batch = <<>>
                    THEN /\ Return(all_records, ClosedResult(args, all_records))
                         /\ UNCHANGED consecutive_old_batches
                    ELSE /\ consecutive_old_batches' = old
                         /\ IF use_early_stopping(args) /\ ~valid /\ old >= OLD_BATCHES_STOP
                            THEN Return(acc, ClosedResult(args, acc))
                            ELSE IF Len(batch) < CLOSED_LIMIT
                            THEN Return(acc, ClosedResult(args, acc))
                            ELSE Continue(acc, NextOffset(offset, CLOSED_LIMIT))
           ELSE /\ Except(ExceptHTTPError(st))
                /\ UNCHANGED consecutive_old_batches
    /\ UNCHANGED <<args, sort_by, sort_direction, batch_index>>
    /\ UNCHANGED notWalkVars

\* get_all_user_trades
GetAllUserTradesStep ==
    /\ pc = "loop" /\ args.walk = "trades"
    /\ IF filter_rejected(args.filter_type, args.filter_amount)
       THEN /\ pc' = "raised"
            /\ UNCHANGED <<all_records, offset, result, req, status, nreq, n429>>
       ELSE
       \E st \in Responses :
        /\ Issue(st, offset, TRADES_LIMIT)
        /\ IF st = HTTP_OK
           THEN LET batch == Page(Server(args, sort_by, sort_direction), offset, TRADES_LIMIT)
                    acc == all_records \o batch
                IN  IF Len(batch) < TRADES_LIMIT THEN Return(acc, acc)
                    ELSE IF Truthy(args.max_results) /\ Len(acc) >= args.max_results
                    THEN Return(Truncate(acc, args.max_results), Truncate(acc, args.max_results))
                    ELSE IF offset_limit_reached(offset, TRADES_LIMIT) THEN Return(acc, acc)
                    ELSE Continue(acc, NextOffset(offset, TRADES_LIMIT))
           ELSE Except(RaiseForStatus(st))
    /\ UNCHANGED <<args, consecutive_old_batches, sort_by, sort_direction, batch_index>>
    /\ UNCHANGED notWalkVars

\* get_all_user_activity
GetAllUserActivityStep ==
    /\ pc = "loop" /\ args.walk = "activity"
    /\ \E st \in Responses :
        /\ Issue(st, offset, ACTIVITY_LIMIT)
        /\ IF st = HTTP_OK
           THEN LET batch == Page(Server(args, sort_by, sort_direction), offset, ACTIVITY_LIMIT)
                    acc == all_records \o batch
                IN  IF Len(batch) < ACTIVITY_LIMIT THEN Return(acc, acc)
                    ELSE IF Truthy(args.max_results) /\ Len(acc) >= args.max_results
                    THEN Return(Truncate(acc, args.max_results), Truncate(acc, args.max_results))
                    ELSE IF offset_limit_reached(offset, ACTIVITY_LIMIT) THEN Return(acc, acc)
                    ELSE Continue(acc, NextOffset(offset, ACTIVITY_LIMIT))
           ELSE Except(RaiseForStatus(st))
    /\ UNCHANGED <<args, consecutive_old_batches, sort_by, sort_direction, batch_index>>
    /\ UNCHANGED notWalkVars

\* scrape_leaderboard: iteration i of for i in range(num_batches)
ScrapeLeaderboardStep ==
    /\ pc = "loop" /\ args.walk = "leaderboard"
    /\ \E st \in Responses :
        LET off == batch_index * batch_size IN
        /\ Issue(st, off, batch_size)
        /\ IF st = HTTP_OK
           THEN LET users == Page(Server(args, sort_by, sort_direction), off, batch_size)
                    acc == all_records \o users
                IN  /\ all_records' = acc
                    /\ offset' = off
                    /\ IF Len(users) < batch_size \/ batch_index + 1 >= num_batches(args.total)
                       THEN pc' = "done" /\ result' = acc /\ UNCHANGED batch_index
                       ELSE pc' = "loop" /\ batch_index' = batch_index + 1 /\ UNCHANGED result
           ELSE /\ pc' = RaiseForStatus(st)
                /\ offset' = off
                /\ UNCHANGED <<all_records, result, batch_index>>
    /\ UNCHANGED <<args, consecutive_old_batches, sort_by, sort_direction>>
    /\ UNCHANGED notWalkVars

\* the state on entry to the loop, after the walk's locals are set
WalkEntry ==
    /\ args \in WalkArgs
    /\ pc = IF args.walk = "leaderboard" /\ num_batches(args.total) = 0 THEN "done" ELSE "loop"
    /\ offset = 0
    /\ all_records = <<>>
    /\ consecutive_old_batches = 0
    /\ sort_by = IF args.walk = "closed" /\ use_early_stopping(args) THEN "TIMESTAMP" ELSE args.sort_by
    /\ sort_direction = IF args.walk = "closed" /\ use_early_stopping(args) THEN "DESC"
                        ELSE args.sort_direction
    /\ batch_index = 0
    /\ req = [offset |-> None, limit |-> None, sort_by |-> "NA", sort_direction |-> "NA"]
    /\ status = 0
    /\ nreq = 0
    /\ n429 = 0
    /\ result = <<>>

NextWalk ==
    \/ GetAllUserPositionsStep
    \/ GetAllClosedPositionsStep
    \/ GetAllUserTradesStep
    \/ GetAllUserActivityStep
    \/ ScrapeLeaderboardStep

-----------------------------------------------------------------------------
(* The leaderboard snapshot collector: scrape_leaderboard_snapshot           *)

\* categories = [...]
categories ==
    <<"overall", "politics", "sports", "crypto", "finance",
      "culture", "mentions", "weather", "economics", "tech">>

\* timeframes: list | None = None
NoTimeframes == [is_none |-> TRUE, list |-> <<>>]
Timeframes(l) == [is_none |-> FALSE, list |-> l]

\* the calls tried: timeframes (None: the default ['day']) and max_retries
SnapArgs ==
    [timeframes : {NoTimeframes, Timeframes(<<>>), Timeframes(<<"week">>)},
     max_retries : 0..MaxRetries]

\* if timeframes is None: timeframes = ['day']
timeframes(a) == IF a.timeframes.is_none THEN <<"day">> ELSE a.timeframes.list

\* total_scrapes = len(categories) * len(timeframes)
total_scrapes(a) == Len(categories) * Len(timeframes(a))

\* the combination the nested for loops are at when current_scrape = n
timeframe_of(a, n) == timeframes(a)[((n - 1) \div Len(categories)) + 1]
category_of(n) == categories[((n - 1) % Len(categories)) + 1]

\* f"{timeframe}/{category}"
Combination(a, n) == <<timeframe_of(a, n), category_of(n)>>

\* the capture time of the run at hand, and of an earlier run of the same day
CaptureTime == 2
EarlierCaptureTime == 1

\* the rows all_data gains for the first k users a successful scrape_leaderboard
\* call returned for combination n
Rows(a, n, k) ==
    [r \in 1..k |-> [timestamp |-> CaptureTime, timeframe |-> timeframe_of(a, n),
                     category |-> category_of(n), rank |-> r]]

\* the file before the call: absent, or holding an earlier capture of the day
StoreChoices ==
    { [exists |-> FALSE, rows |-> <<>>],
      [exists |-> TRUE,
       rows |-> <<[timestamp |-> EarlierCaptureTime, timeframe |-> "day",
                   category |-> "overall", rank |-> 1]>>] }

\* a write that always replaces the file
to_csv_overwriting(file, table) == [exists |-> TRUE, rows |-> table]

\* to_csv: mode='a' when the file exists, mode='w' otherwise
to_csv(file, table) ==
    IF file.exists THEN [exists |-> TRUE, rows |-> file.rows \o table]
    ELSE [exists |-> TRUE, rows |-> table]

\* a gate that also rejects a run with exactly 30% failures
quality_gate_inclusive(n_failed, total) == 10 * n_failed >= 3 * total

\* len(failed_scrapes) > total_scrapes * 0.3, in tenths (the float product is
\* exact enough for the totals 0, 10, 20 and 30 the code can reach)
quality_too_low(n_failed, total) == 10 * n_failed > 3 * total

\* the code after the loops: build the table, write the file, then the quality gate
Finish(data, failed) ==
    /\ store' = to_csv(store, data)
    /\ IF quality_too_low(Len(failed), total_scrapes(snap_args))
       THEN snap_pc' = "raised" /\ snapshot_df' = <<>>
       ELSE snap_pc' = "done" /\ snapshot_df' = data

\* loops that give up the run as soon as a combination has failed its last attempt
NextCombinationAbortsOnFailure(data, failed) ==
    /\ all_data' = data
    /\ failed_scrapes' = failed
    /\ IF current_scrape < total_scrapes(snap_args) /\ failed = failed_scrapes
       THEN /\ current_scrape' = current_scrape + 1
            /\ attempt' = 0
            /\ snap_pc' = "fetch"
            /\ UNCHANGED <<store, snapshot_df>>
       ELSE /\ Finish(data, failed)
            /\ UNCHANGED <<current_scrape, attempt>>

\* the loops move on from combination current_scrape, or are over
NextCombination(data, failed) ==
    /\ all_data' = data
    /\ failed_scrapes' = failed
    /\ IF current_scrape < total_scrapes(snap_args)
       THEN /\ current_scrape' = current_scrape + 1
            /\ attempt' = 0
            /\ snap_pc' = "fetch"
            /\ UNCHANGED <<store, snapshot_df>>
       ELSE /\ Finish(data, failed)
            /\ UNCHANGED <<current_scrape, attempt>>

\* scrape_leaderboard_snapshot up to the first attempt; with nothing to attempt
\* (no timeframe, or max_retries = 0) the loops fall through to the end
ScrapeLeaderboardSnapshotCall ==
    /\ snap_pc = "idle"
    /\ all_data' = <<>>
    /\ failed_scrapes' = <<>>
    /\ attempt' = 0
    /\ IF total_scrapes(snap_args) = 0 \/ snap_args.max_retries = 0
       THEN /\ current_scrape' = total_scrapes(snap_args)
            /\ Finish(<<>>, <<>>)
       ELSE /\ current_scrape' = 1
            /\ snap_pc' = "fetch"
            /\ UNCHANGED <<store, snapshot_df>>
    /\ UNCHANGED <<snap_args, malformed_seen>>
    /\ UNCHANGED notSnapVars

\* one attempt of the retry loop for the combination at hand.  The attempt
\* succeeds, or scrape_leaderboard raises, or normalising the k+1-th user raises
\* after k rows were appended (at most one response of a run is malformed);
\* after the last combination the run finishes.
ScrapeAttempt ==
    /\ snap_pc = "fetch"
    /\ \E outcome \in {"ok", "error", "malformed"} :
        LET k == IF outcome = "ok" THEN UsersPerScrape
                 ELSE IF outcome = "malformed" THEN UsersPerScrape - 1 ELSE 0
            data == all_data \o Rows(snap_args, current_scrape, k)
        IN
        /\ outcome = "malformed" => ~malformed_seen
        /\ malformed_seen' = (malformed_seen \/ outcome = "malformed")
        /\ IF outcome = "ok"
           THEN NextCombination(data, failed_scrapes)
           ELSE IF attempt = snap_args.max_retries - 1
           THEN NextCombination(data,
                    Append(failed_scrapes, Combination(snap_args, current_scrape)))
           ELSE /\ attempt' = attempt + 1
                /\ all_data' = data
                /\ UNCHANGED <<snap_pc, current_scrape, failed_scrapes, store, snapshot_df>>
    /\ UNCHANGED snap_args
    /\ UNCHANGED notSnapVars

\* before the call
SnapEntry ==
    /\ snap_args \in SnapArgs
    /\ store \in StoreChoices
    /\ snap_pc = "idle"
    /\ current_scrape = 0
    /\ attempt = 0
    /\ all_data = <<>>
    /\ failed_scrapes = <<>>
    /\ snapshot_df = <<>>
    /\ malformed_seen = FALSE

NextSnap ==
    \/ ScrapeLeaderboardSnapshotCall
    \/ ScrapeAttempt

-----------------------------------------------------------------------------
(* The scheduled job: scrape_with_retry.  One action is one iteration of its *)
(* loop, the whole call of scrape_leaderboard_snapshot included.             *)

\* the arguments of the job's call: timeframes=['day'], max_retries=3
JobSnapArgs == [timeframes |-> Timeframes(<<"day">>), max_retries |-> 3]

RECURSIVE SnapshotTable(_, _, _)
\* the table of a call whose combinations 1..failed failed all their attempts
\* and whose other combinations up to n succeeded, captured at time t
SnapshotTable(n, failed, t) ==
    IF n = 0 THEN <<>>
    ELSE SnapshotTable(n - 1, failed, t)
         \o (IF n <= failed THEN <<>>
             ELSE [r \in 1..UsersPerScrape |->
                     [Rows(JobSnapArgs, n, UsersPerScrape)[r] EXCEPT !.timestamp = t]])

\* a job that gives up after its first failed attempt
job_gives_up_at_once(a, max_retries) == TRUE

\* if attempt < max_retries - 1: sleep and go on; else: raise
job_gives_up(a, max_retries) == ~(a < max_retries - 1)

\* one iteration of for attempt in range(max_retries): the snapshot call, in
\* which the first `failed` combinations fail, writes its table to the file
\* and then returns it or raises at the quality gate; the job returns the
\* table, or logs the error and tries again, or re-raises it
ScrapeWithRetryAttempt ==
    /\ job_pc = "loop"
    /\ \E failed \in 0..total_scrapes(JobSnapArgs) :
        LET table == SnapshotTable(total_scrapes(JobSnapArgs), failed,
                                   CaptureTime + job_attempt)
        IN  /\ store' = to_csv(store, table)
            /\ job_calls' = job_calls + 1
            /\ IF quality_too_low(failed, total_scrapes(JobSnapArgs))
               THEN /\ job_pc' = IF job_gives_up(job_attempt, job_max_retries)
                                 THEN "raised" ELSE "loop"
                    /\ job_attempt' = IF job_gives_up(job_attempt, job_max_retries)
                                      THEN job_attempt ELSE job_attempt + 1
                    /\ UNCHANGED job_result
               ELSE /\ job_pc' = "done"
                    /\ job_result' = table
                    /\ UNCHANGED job_attempt
    /\ UNCHANGED job_max_retries
    /\ UNCHANGED notJobVars

\* scrape_with_retry(max_retries) on entry: with max_retries = 0 the loop body
\* never runs and the function returns None
JobEntry ==
    /\ job_max_retries \in 0..JobMaxRetries
    /\ store \in StoreChoices
    /\ job_pc = IF job_max_retries = 0 THEN "done" ELSE "loop"
    /\ job_attempt = 0
    /\ job_calls = 0
    /\ job_result = <<>>

NextJob == ScrapeWithRetryAttempt

-----------------------------------------------------------------------------
(* pandas pieces used by the analyzer *)

RECURSIVE SumSeq(_)
\* Series.sum()
SumSeq(nums) == IF nums = <<>> THEN 0 ELSE Head(nums) + SumSeq(Tail(nums))

\* Series.max() of a non-empty series
MaxSeq(nums) == CHOOSE m \in {nums[k] : k \in 1..Len(nums)} : \A k \in 1..Len(nums) : nums[k] <= m

RECURSIVE Unique(_)
\* Series.unique(): the distinct values in order of appearance
Unique(vals) ==
    IF vals = <<>> THEN <<>>
    ELSE <<Head(vals)>> \o Unique(SelectSeq(Tail(vals), LAMBDA v : v # Head(vals)))

RECURSIVE SortedKeys(_)
\* the group keys of groupby(...), which sorts them ascending
SortedKeys(keys) ==
    IF keys = {} THEN <<>>
    ELSE LET least == CHOOSE k \in keys : \A j \in keys : k <= j
         IN  <<least>> \o SortedKeys(keys \ {least})

RECURSIVE SortedOrders(_, _)
\* the orders of the indices idx in which keys is non-increasing.  sort_values
\* uses quicksort, which is not stable: rows with equal keys come in any order.
SortedOrders(keys, idx) ==
    IF idx = {} THEN {<<>>}
    ELSE LET tops == {i \in idx : \A j \in idx : keys[j] <= keys[i]}
         IN  UNION {{<<i>> \o o : o \in SortedOrders(keys, idx \ {i})} : i \in tops}

\* the possible results of rows.sort_values(by=key, ascending=False)
sort_values_descending(rows, keys) ==
    {[k \in 1..Len(rows) |-> rows[o[k]]] : o \in SortedOrders(keys, 1..Len(rows))}

\* the possible results of rows.sort_values(by=key, ascending=True)
sort_values_ascending(rows, keys) ==
    sort_values_descending(rows, [k \in 1..Len(rows) |-> 0 - keys[k]])

\* the column col of a table, as a sequence
Timestamps(rows) == [k \in 1..Len(rows) |-> rows[k].timestamp]

\* rows[rows['asset'] == asset_id]
RowsOfAsset(rows, asset_id) == SelectSeq(rows, LAMBDA r : r.asset = asset_id)

\* the rows inside [start_date, end_date], a bound applying only when given
DateFilter(rows, w) == SelectSeq(rows, LAMBDA r : InWindow(r.timestamp, w.start, w.end))

\* all the sequences of at most n elements of S
SeqsUpTo(S, n) == UNION {[1..k -> S] : k \in 0..n}

-----------------------------------------------------------------------------
(* The API as the analyzer sees it.  Asset ids are 1 and 2, money is in     *)
(* dollars, prices are in tenths of a dollar and sizes are multiples of 10. *)

ClosedPositionChoices ==
    { [asset |-> 1, title |-> "A", eventSlug |-> "event-a", realizedPnl |-> 10,
       timestamp |-> 2, totalBought |-> 100, curPrice |-> 10],
      [asset |-> 1, title |-> "A again", eventSlug |-> "event-a", realizedPnl |-> -3,
       timestamp |-> 1, totalBought |-> 50, curPrice |-> 10],
      [asset |-> 2, title |-> "B", eventSlug |-> "event-b", realizedPnl |-> -3,
       timestamp |-> 2, totalBought |-> 10, curPrice |-> 0] }

\* an open position: endDate None when the API gives '' or nothing
OpenPositionChoices ==
    { [asset |-> 1, title |-> "A open", eventSlug |-> "event-a", cashPnl |-> 5,
       realizedPnl |-> 1, endDate |-> None, totalBought |-> 20, curPrice |-> 6],
      [asset |-> 2, title |-> "B open", eventSlug |-> "event-b", cashPnl |-> 5,
       realizedPnl |-> 1, endDate |-> 3, totalBought |-> 20, curPrice |-> 6] }

TradeChoices ==
    { [asset |-> 1, title |-> "A", eventSlug |-> "event-a", side |-> "BUY",
       size |-> 100, price |-> 5, timestamp |-> 1],
      [asset |-> 1, title |-> "A", eventSlug |-> "event-a", side |-> "SELL",
       size |-> 50, price |-> 6, timestamp |-> 2],
      [asset |-> 2, title |-> "B", eventSlug |-> "event-b", side |-> "BUY",
       size |-> 10, price |-> 5, timestamp |-> 2] }

\* the event behind a slug, as the events endpoint reports it
EventId(slug) == IF slug = "event-a" THEN 101 ELSE 102

\* what the API holds and which of its calls fails: "slug" makes
\* get_event_by_slug fail for event-a, "trades" makes get_all_user_trades fail
\* for event-a's event
ApiChoices ==
    [closed : SeqsUpTo(ClosedPositionChoices, MaxClosed),
     open : SeqsUpTo(OpenPositionChoices, MaxOpen),
     trades : SeqsUpTo(TradeChoices, MaxTrades),
     failing : {"none", "slug", "trades"}]

\* the analyzer's window: none, or the days 2 to 3
WindowChoices == {[start |-> None, end |-> None], [start |-> 2, end |-> 3]}

-----------------------------------------------------------------------------
(* PortfolioAnalyzer *)

\* an open position's row that keeps the API's realizedPnl
OpenRowKeepingRealizedPnl(pos) ==
    [asset |-> pos.asset, title |-> pos.title, eventSlug |-> pos.eventSlug,
     realizedPnl |-> pos.realizedPnl, closed |-> FALSE,
     timestamp |-> IF pos.endDate = None THEN far_future ELSE pos.endDate,
     totalBought |-> pos.totalBought, curPrice |-> pos.curPrice, eventId |-> None]

\* an open position's row whose missing endDate is left at the epoch
OpenRowWithoutSentinel(pos) ==
    [asset |-> pos.asset, title |-> pos.title, eventSlug |-> pos.eventSlug,
     realizedPnl |-> pos.cashPnl, closed |-> FALSE,
     timestamp |-> IF pos.endDate = None THEN 0 ELSE pos.endDate,
     totalBought |-> pos.totalBought, curPrice |-> pos.curPrice, eventId |-> None]

\* a closed position as a row of df_closed
ClosedRow(pos) ==
    [asset |-> pos.asset, title |-> pos.title, eventSlug |-> pos.eventSlug,
     realizedPnl |-> pos.realizedPnl, closed |-> TRUE, timestamp |-> pos.timestamp,
     totalBought |-> pos.totalBought, curPrice |-> pos.curPrice, eventId |-> None]

\* an open position as a row of df_open: cashPnl takes realizedPnl's place and
\* the timestamp is the endDate, or far_future when there is none
OpenRow(pos) ==
    [asset |-> pos.asset, title |-> pos.title, eventSlug |-> pos.eventSlug,
     realizedPnl |-> pos.cashPnl, closed |-> FALSE,
     timestamp |-> IF pos.endDate = None THEN far_future ELSE pos.endDate,
     totalBought |-> pos.totalBought, curPrice |-> pos.curPrice, eventId |-> None]

\* the closed positions get_all_closed_positions returns for the window
closed_positions(a, w) == DateFilter(a.closed, w)

\* the tables of a load_positions that relies on the API call's filter alone
LoadedPositionsWithoutClientFilter(a, w) ==
    LET closed == closed_positions(a, w)
        df_closed == [k \in 1..Len(closed) |-> ClosedRow(closed[k])]
        df_open == [k \in 1..Len(a.open) |-> OpenRow(a.open[k])]
        merged == df_closed \o df_open
    IN  sort_values_descending(merged, Timestamps(merged))

\* the tables load_positions can build: closed positions inside the window (the
\* API call filters them), open positions, merged and sorted by timestamp
\* descending, then filtered by the window once more
LoadedPositions(a, w) ==
    LET closed == closed_positions(a, w)
        df_closed == [k \in 1..Len(closed) |-> ClosedRow(closed[k])]
        df_open == [k \in 1..Len(a.open) |-> OpenRow(a.open[k])]
        merged == df_closed \o df_open
    IN  {DateFilter(sorted, w) : sorted \in sort_values_descending(merged, Timestamps(merged))}

\* load_positions, and run_full_analysis' early return when no position is left.
\* With neither a closed nor an open position the merged frame has no column
\* 'timestamp' and sort_values raises KeyError.
LoadPositions ==
    /\ an_pc = "load_positions"
    /\ IF closed_positions(api, window) = <<>> /\ api.open = <<>>
       THEN an_pc' = "raised" /\ UNCHANGED df
       ELSE /\ df' \in LoadedPositions(api, window)
            /\ an_pc' = IF df' = <<>> THEN "done" ELSE "fetch_event_ids"
    /\ UNCHANGED <<api, window, runs, portfolio, all_trades_df, df_aggregated, trade_dfs, title_mapping,
                   summary_df, winning_df, losing_df>>
    /\ UNCHANGED notAnVars

\* a loop that resolves no slug at all once one lookup has raised
slug_to_id_aborting(a, slug) ==
    IF a.failing = "slug" THEN None ELSE EventId(slug)

\* slug_to_id[slug]: the event's id, or None when the lookup raised
slug_to_id(a, slug) ==
    IF a.failing = "slug" /\ slug = "event-a" THEN None ELSE EventId(slug)

\* self.df['eventId'] = self.df['eventSlug'].map(slug_to_id)
WithEventIds(a, positions) ==
    [k \in 1..Len(positions) |->
        [positions[k] EXCEPT !.eventId = slug_to_id(a, positions[k].eventSlug)]]

\* fetch_event_ids
FetchEventIds ==
    /\ an_pc = "fetch_event_ids"
    /\ df' = IF df = <<>> THEN df ELSE WithEventIds(api, df)
    /\ an_pc' = "load_trades"
    /\ UNCHANGED <<api, window, runs, portfolio, all_trades_df, df_aggregated, trade_dfs, title_mapping,
                   summary_df, winning_df, losing_df>>
    /\ UNCHANGED notAnVars

\* a walk whose first trade, fetched before the failure, is kept
event_trades_keeping_fetched(a, event_id) ==
    LET mine == SelectSeq(a.trades, LAMBDA t : EventId(t.eventSlug) = event_id)
    IN  IF a.failing = "trades" /\ event_id = EventId("event-a")
        THEN (IF mine = <<>> THEN <<>> ELSE <<mine[1]>>)
        ELSE mine

\* what get_all_user_trades(event_id) adds to all_trades: the event's trades, or
\* nothing when the call raised
event_trades(a, event_id) ==
    IF a.failing = "trades" /\ event_id = EventId("event-a") THEN <<>>
    ELSE SelectSeq(a.trades, LAMBDA t : EventId(t.eventSlug) = event_id)

RECURSIVE ConcatAll(_)
\* all_trades after the loop over unique_event_ids
ConcatAll(lists) == IF lists = <<>> THEN <<>> ELSE Head(lists) \o ConcatAll(Tail(lists))

\* df.set_index('asset')[col].to_dict()[asset_id]: the last row of the asset wins
LastOfAsset(rows, asset_id) ==
    LET mine == RowsOfAsset(rows, asset_id) IN mine[Len(mine)]

\* a fetched trade as a row of all_trades_df (the columns current_value,
\* trade_pnl and percent_pnl, which no later stage reads, are left out).  The
\* joined columns are NaN for an asset that has no position row: "NaN" for
\* closed (otherwise "True" or "False"), None for curPrice.
TradeRow(t, positions) ==
    LET matched == RowsOfAsset(positions, t.asset) # <<>>
    IN  [asset |-> t.asset, title |-> t.title, eventSlug |-> t.eventSlug, side |-> t.side,
         size |-> t.size, price |-> t.price, timestamp |-> t.timestamp,
         value |-> (t.size * t.price) \div 10,
         closed |-> IF ~matched THEN "NaN"
                    ELSE IF LastOfAsset(positions, t.asset).closed THEN "True" ELSE "False",
         curPrice |-> IF ~matched THEN None ELSE LastOfAsset(positions, t.asset).curPrice]

\* the tables load_trades can build
LoadedTrades(a, positions, w) ==
    LET ids == SelectSeq([k \in 1..Len(positions) |-> positions[k].eventId],
                         LAMBDA e : e # None)
        unique_event_ids == Unique(ids)
        all_trades == ConcatAll([k \in 1..Len(unique_event_ids) |->
                                    event_trades(a, unique_event_ids[k])])
        rows == [k \in 1..Len(all_trades) |-> TradeRow(all_trades[k], positions)]
        kept == DateFilter(rows, w)
    IN  IF all_trades = <<>> THEN {<<>>}
        ELSE sort_values_descending(kept, Timestamps(kept))

\* load_trades
LoadTrades ==
    /\ an_pc = "load_trades"
    /\ all_trades_df' \in (IF df = <<>> THEN {<<>>} ELSE LoadedTrades(api, df, window))
    /\ an_pc' = "process_trades"
    /\ UNCHANGED <<api, window, runs, portfolio, df, df_aggregated, trade_dfs, title_mapping,
                   summary_df, winning_df, losing_df>>
    /\ UNCHANGED notAnVars

\* a group's title and eventSlug read from its last row instead of its first
AggregateRowTakingLast(rows) ==
    [title |-> rows[Len(rows)].title, eventSlug |-> rows[Len(rows)].eventSlug,
     asset |-> rows[1].asset,
     realizedPnl |-> SumSeq([k \in 1..Len(rows) |-> rows[k].realizedPnl]),
     closed |-> \A k \in 1..Len(rows) : rows[k].closed,
     timestamp |-> MaxSeq(Timestamps(rows))]

\* .agg({...}) on the rows of one asset, in the order they have in df
AggregateRow(rows) ==
    [title |-> rows[1].title, eventSlug |-> rows[1].eventSlug, asset |-> rows[1].asset,
     realizedPnl |-> SumSeq([k \in 1..Len(rows) |-> rows[k].realizedPnl]),
     closed |-> \A k \in 1..Len(rows) : rows[k].closed,
     timestamp |-> MaxSeq(Timestamps(rows))]

\* self.df.groupby('asset').agg({...}).reset_index(drop=True)
Aggregated(positions) ==
    LET keys == SortedKeys({positions[k].asset : k \in 1..Len(positions)})
    IN  [g \in 1..Len(keys) |-> AggregateRow(RowsOfAsset(positions, keys[g]))]

\* a loop that stops after the first aggregated row that has trades
WithTradesFirstOnly(agg, trades) ==
    LET all == SelectSeq([i \in 1..Len(agg) |-> i],
                         LAMBDA i : RowsOfAsset(trades, agg[i].asset) # <<>>)
    IN  IF all = <<>> THEN <<>> ELSE <<all[1]>>

\* the numbers i of the aggregated rows that have trades, in order
WithTrades(agg, trades) ==
    SelectSeq([i \in 1..Len(agg) |-> i],
              LAMBDA i : RowsOfAsset(trades, agg[i].asset) # <<>>)

\* self.trade_dfs after the loop over df_aggregated: 'trade<i>' -> the trades of
\* the i-th aggregated row, for the rows that have trades
TradeGroups(agg, trades) ==
    LET kept == WithTrades(agg, trades)
    IN  [n \in 1..Len(kept) |->
            [key |-> kept[n], trades |-> RowsOfAsset(trades, agg[kept[n]].asset)]]

\* self.title_mapping after the same loop
TitleMapping(agg, trades) ==
    LET kept == WithTrades(agg, trades)
    IN  [n \in 1..Len(kept) |->
            [key |-> kept[n],
             title |-> agg[kept[n]].title,
             eventSlug |-> agg[kept[n]].eventSlug,
             asset |-> agg[kept[n]].asset,
             num_trades |-> Len(RowsOfAsset(trades, agg[kept[n]].asset)),
             realizedPnl |-> agg[kept[n]].realizedPnl]]

\* process_trades
ProcessTrades ==
    /\ an_pc = "process_trades"
    /\ IF df = <<>> \/ all_trades_df = <<>>
       THEN UNCHANGED <<df_aggregated, trade_dfs, title_mapping>>
       ELSE /\ df_aggregated' = Aggregated(df)
            /\ trade_dfs' = TradeGroups(Aggregated(df), all_trades_df)
            /\ title_mapping' = TitleMapping(Aggregated(df), all_trades_df)
    /\ an_pc' = "create_summary"
    /\ UNCHANGED <<api, window, runs, portfolio, df, all_trades_df, summary_df, winning_df,
                   losing_df>>
    /\ UNCHANGED notAnVars

\* a return on investment computed without looking at the amount invested
roi_unguarded(pnl, invested) == <<pnl * 100, invested>>

\* (pnl / total_invested * 100) if total_invested > 0 else 0, kept as the
\* fraction <<numerator, denominator>>; 0 is <<0, 1>>
roi(pnl, invested) == IF invested > 0 THEN <<pnl * 100, invested>> ELSE <<0, 1>>

\* the values of the trades of one side
SideValues(trades, side) ==
    LET mine == SelectSeq(trades, LAMBDA t : t.side = side)
    IN  [k \in 1..Len(mine) |-> mine[k].value]

\* the row create_summary appends for one entry of trade_dfs: position_data is
\* the first row of self.df with the asset
SummaryRow(entry, positions) ==
    LET trades == entry.trades
        asset_id == trades[1].asset
        position_data == RowsOfAsset(positions, asset_id)[1]
        api_pnl == position_data.realizedPnl
        total_invested == SumSeq(SideValues(trades, "BUY"))
        total_sells == SumSeq(SideValues(trades, "SELL"))
    IN  [position |-> entry.key,
         title |-> trades[1].title,
         eventSlug |-> trades[1].eventSlug,
         first_timestamp |-> trades[Len(trades)].timestamp,
         totalBought |-> position_data.totalBought,
         realizedPnl |-> api_pnl,
         total_invested |-> total_invested,
         total_sells |-> total_sells,
         net_invested |-> total_invested - total_sells,
         roi_pct |-> roi(api_pnl, total_invested),
         num_trades |-> Len(trades),
         has_sells |-> \E k \in 1..Len(trades) : trades[k].side = "SELL",
         closed |-> position_data.closed,
         asset |-> asset_id]

\* position_summary after the loop over self.trade_dfs
PositionSummary(entries, positions) ==
    [n \in 1..Len(entries) |-> SummaryRow(entries[n], positions)]

\* the column first_timestamp
FirstTimestamps(rows) == [k \in 1..Len(rows) |-> rows[k].first_timestamp]

\* the entries of self.trade_dfs whose asset has no row in self.df: .iloc[0]
\* on the empty selection raises IndexError
Orphans(entries, positions) ==
    SelectSeq(entries, LAMBDA e : RowsOfAsset(positions, e.trades[1].asset) = <<>>)

\* winning and losing rows left in the order they have in the summary table
WinningLosingUnsorted(summary) ==
    {<<SelectSeq(summary, LAMBDA r : r.realizedPnl > 0),
       SelectSeq(summary, LAMBDA r : r.realizedPnl < 0)>>}

\* the possible values of (winning_df, losing_df) for a summary table
WinningLosing(summary) ==
    LET winning == SelectSeq(summary, LAMBDA r : r.realizedPnl > 0)
        losing == SelectSeq(summary, LAMBDA r : r.realizedPnl < 0)
    IN  sort_values_ascending(winning, FirstTimestamps(winning))
        \X sort_values_ascending(losing, FirstTimestamps(losing))

\* create_summary
CreateSummary ==
    /\ an_pc = "create_summary"
    /\ IF df = <<>>
       THEN /\ summary_df' = <<>> /\ winning_df' = <<>> /\ losing_df' = <<>>
            /\ an_pc' = "portfolio_summary"
       ELSE IF Orphans(trade_dfs, df) # <<>>
       THEN /\ an_pc' = "raised"
            /\ UNCHANGED <<summary_df, winning_df, losing_df>>
       ELSE /\ summary_df' = PositionSummary(trade_dfs, df)
            /\ \E pair \in WinningLosing(PositionSummary(trade_dfs, df)) :
                  winning_df' = pair[1] /\ losing_df' = pair[2]
            /\ an_pc' = "portfolio_summary"
    /\ UNCHANGED <<api, window, runs, portfolio, df, all_trades_df, df_aggregated, trade_dfs,
                   title_mapping>>
    /\ UNCHANGED notAnVars

\* nothing computed: portfolio_summary returned at its guard
NoPortfolio ==
    [computed |-> FALSE, realized_pnl |-> 0, unrealized_pnl |-> 0, total_pnl |-> 0,
     total_invested |-> 0, overall_roi |-> <<0, 1>>,
     closed_count |-> 0, winning_count |-> 0, losing_count |-> 0, win_rate |-> <<0, 1>>]

\* closed summaries taken to be only those that ended with a profit or a loss
closed_summaries_decided(summary) ==
    SelectSeq(summary, LAMBDA r : r.closed /\ r.realizedPnl # 0)

\* closed_positions = self.summary_df[self.summary_df['closed'] == True]
closed_summaries(summary) == SelectSeq(summary, LAMBDA r : r.closed)

\* (len(winning) / len(closed_positions) * 100) if len(closed_positions) > 0
\* else 0, kept as the fraction <<numerator, denominator>>; 0 is <<0, 1>>
win_rate(n_winning, n_closed) ==
    IF n_closed > 0 THEN <<n_winning * 100, n_closed>> ELSE <<0, 1>>

\* the sum of realizedPnl over the rows of a table
PnlSum(rows) == SumSeq([k \in 1..Len(rows) |-> rows[k].realizedPnl])

\* figures whose unrealized_pnl is summed over the summary rows, which cover
\* only the positions that have trades
PortfolioOverSummary(positions, summary) ==
    LET total_pnl == PnlSum(positions)
        total_invested == SumSeq([k \in 1..Len(summary) |-> summary[k].total_invested])
    IN  [computed |-> TRUE,
         realized_pnl |-> PnlSum(SelectSeq(positions, LAMBDA r : r.closed)),
         unrealized_pnl |-> PnlSum(SelectSeq(summary, LAMBDA r : ~r.closed)),
         total_pnl |-> total_pnl,
         total_invested |-> total_invested,
         overall_roi |-> roi(total_pnl, total_invested),
         closed_count |-> Len(closed_summaries(summary)),
         winning_count |-> Len(SelectSeq(closed_summaries(summary), LAMBDA r : r.realizedPnl > 0)),
         losing_count |-> Len(SelectSeq(closed_summaries(summary), LAMBDA r : r.realizedPnl < 0)),
         win_rate |-> win_rate(
             Len(SelectSeq(closed_summaries(summary), LAMBDA r : r.realizedPnl > 0)),
             Len(closed_summaries(summary)))]

\* the figures portfolio_summary computes from self.df and self.summary_df
Portfolio(positions, summary) ==
    LET total_pnl == PnlSum(positions)
        total_invested == SumSeq([k \in 1..Len(summary) |-> summary[k].total_invested])
    IN  [computed |-> TRUE,
         realized_pnl |-> PnlSum(SelectSeq(positions, LAMBDA r : r.closed)),
         unrealized_pnl |-> PnlSum(SelectSeq(positions, LAMBDA r : ~r.closed)),
         total_pnl |-> total_pnl,
         total_invested |-> total_invested,
         overall_roi |-> roi(total_pnl, total_invested),
         closed_count |-> Len(closed_summaries(summary)),
         winning_count |-> Len(SelectSeq(closed_summaries(summary), LAMBDA r : r.realizedPnl > 0)),
         losing_count |-> Len(SelectSeq(closed_summaries(summary), LAMBDA r : r.realizedPnl < 0)),
         win_rate |-> win_rate(
             Len(SelectSeq(closed_summaries(summary), LAMBDA r : r.realizedPnl > 0)),
             Len(closed_summaries(summary)))]

\* portfolio_summary (the files save_to_csv writes after it are not part of
\* the state)
PortfolioSummary ==
    /\ an_pc = "portfolio_summary"
    /\ portfolio' = IF df = <<>> \/ summary_df = <<>> THEN NoPortfolio
                    ELSE Portfolio(df, summary_df)
    /\ an_pc' = "done"
    /\ UNCHANGED <<api, window, runs, df, all_trades_df, df_aggregated, trade_dfs,
                   title_mapping, summary_df, winning_df, losing_df>>
    /\ UNCHANGED notAnVars

\* what the API may serve when run_full_analysis is called again: the same, no
\* trades any more, the trade fetch of event-a failing, no closed position, no
\* open position
LaterApiChoices(a) ==
    {a, [a EXCEPT !.trades = <<>>], [a EXCEPT !.failing = "trades"],
     [a EXCEPT !.closed = <<>>], [a EXCEPT !.open = <<>>]}

\* run_full_analysis called again on the analyzer after it returned
RunFullAnalysisAgain ==
    /\ an_pc = "done"
    /\ runs < MaxRuns
    /\ runs' = runs + 1
    /\ api' \in LaterApiChoices(api)
    /\ an_pc' = "load_positions"
    /\ UNCHANGED <<window, portfolio, df, all_trades_df, df_aggregated, trade_dfs,
                   title_mapping, summary_df, winning_df, losing_df>>
    /\ UNCHANGED notAnVars

\* the APIs the repeated runs start from
RerunApiChoices ==
    [closed : SeqsUpTo(ClosedPositionChoices, RerunRows),
     open : SeqsUpTo(OpenPositionChoices, RerunRows),
     trades : SeqsUpTo(TradeChoices, RerunRows),
     failing : {"none"}]

\* the attributes of a PortfolioAnalyzer after __init__, run_full_analysis
\* being called on it
Constructed ==
    /\ an_pc = "load_positions"
    /\ df = <<>>
    /\ all_trades_df = <<>>
    /\ df_aggregated = <<>>
    /\ trade_dfs = <<>>
    /\ title_mapping = <<>>
    /\ summary_df = <<>>
    /\ winning_df = <<>>
    /\ losing_df = <<>>
    /\ portfolio = NoPortfolio
    /\ runs = 1

\* a PortfolioAnalyzer after __init__, and the API it will talk to
AnEntry ==
    /\ api \in ApiChoices
    /\ window \in WindowChoices
    /\ Constructed

NextAn ==
    \/ LoadPositions
    \/ FetchEventIds
    \/ LoadTrades
    \/ ProcessTrades
    \/ CreateSummary
    \/ PortfolioSummary

\* the wallet of the end-to-end example: closed rows (A, 50) and (A, -20), one
\* open position (B, cashPnl 5), trades BUY 100 @ 0.5 and SELL 50 @ 0.6 on A;
\* the records come in either order and on either of two days
ScenarioApis ==
    LET first == [asset |-> 1, title |-> "A", eventSlug |-> "event-a", realizedPnl |-> 50,
                  timestamp |-> 1, totalBought |-> 100, curPrice |-> 10]
        again == [asset |-> 1, title |-> "A again", eventSlug |-> "event-a",
                  realizedPnl |-> -20, timestamp |-> 1, totalBought |-> 50, curPrice |-> 10]
        held == [asset |-> 2, title |-> "B open", eventSlug |-> "event-b", cashPnl |-> 5,
                 realizedPnl |-> 1, endDate |-> None, totalBought |-> 20, curPrice |-> 6]
        buy == [asset |-> 1, title |-> "A", eventSlug |-> "event-a", side |-> "BUY",
                size |-> 100, price |-> 5, timestamp |-> 1]
        sell == [asset |-> 1, title |-> "A", eventSlug |-> "event-a", side |-> "SELL",
                 size |-> 50, price |-> 6, timestamp |-> 1]
        days == {1, 2}
    IN  UNION {
          {[closed |-> c, open |-> <<held>>, trades |-> t, failing |-> "none"] :
              c \in {<<[first EXCEPT !.timestamp = d1], [again EXCEPT !.timestamp = d2]>>,
                     <<[again EXCEPT !.timestamp = d2], [first EXCEPT !.timestamp = d1]>>},
              t \in {<<[buy EXCEPT !.timestamp = d3], [sell EXCEPT !.timestamp = d4]>>,
                     <<[sell EXCEPT !.timestamp = d4], [buy EXCEPT !.timestamp = d3]>>}}
          : d1 \in days, d2 \in days, d3 \in days, d4 \in days}

\* an analyzer for the wallet of the end-to-end example, without a window
ScenarioEntry ==
    /\ api \in ScenarioApis
    /\ window = [start |-> None, end |-> None]
    /\ Constructed

\* a trade on the other outcome of event-a, an asset the wallet has no position in
OtherOutcomeTrade ==
    [asset |-> 3, title |-> "A (No)", eventSlug |-> "event-a", side |-> "SELL",
     size |-> 10, price |-> 4, timestamp |-> 2]

\* wallets whose trades may or may not match a position
MatchingApis ==
    LET A == CHOOSE c \in ClosedPositionChoices : c.asset = 1 /\ c.realizedPnl = 10
        Again == CHOOSE c \in ClosedPositionChoices : c.asset = 1 /\ c.realizedPnl = -3
        B == CHOOSE c \in ClosedPositionChoices : c.asset = 2
    IN  [closed : {<<>>, <<A>>, <<A, Again>>, <<A, B>>},
         open : SeqsUpTo(OpenPositionChoices, 1),
         trades : SeqsUpTo(TradeChoices \cup {OtherOutcomeTrade}, MatchTrades),
         failing : {"none"}]

\* an analyzer for such a wallet
MatchingEntry ==
    /\ api \in MatchingApis
    /\ window \in WindowChoices
    /\ Constructed

\* how a position of the wallet below has ended: closed with a profit, closed
\* at break-even, closed with a loss, or still open
OutcomeChoices == {"win", "even", "loss", "open"}

\* the days on which an asset was traded: never, on day 2, or on days 1 and 3
TradeDayChoices == {<<>>, <<2>>, <<1, 3>>}

\* the closed position of asset k as the API reports it
OutcomeClosedPosition(k, outcome) ==
    [asset |-> k, title |-> "A", eventSlug |-> "event-a",
     realizedPnl |-> IF outcome = "win" THEN 10 ELSE IF outcome = "even" THEN 0 ELSE -3,
     timestamp |-> 40 + k, totalBought |-> 100, curPrice |-> 10]

\* the open position of asset k as the API reports it
OutcomeOpenPosition(k) ==
    [asset |-> k, title |-> "A", eventSlug |-> "event-a", cashPnl |-> 5,
     realizedPnl |-> 1, endDate |-> 50 + k, totalBought |-> 20, curPrice |-> 6]

\* the trades of asset k, a BUY and then SELLs, one on each of the days; no
\* two trades of the wallet have the same timestamp
OutcomeTrades(k, days) ==
    [i \in 1..Len(days) |->
        [asset |-> k, title |-> "A", eventSlug |-> "event-a",
         side |-> IF i = 1 THEN "BUY" ELSE "SELL",
         size |-> 10, price |-> 5, timestamp |-> 10 * days[i] + k]]

\* wallets holding one position in each of MaxAssets markets of event-a
OutcomeApis ==
    LET assets == [k \in 1..MaxAssets |-> k]
    IN  {[closed |-> LET ids == SelectSeq(assets, LAMBDA k : o[k] # "open")
                     IN  [n \in 1..Len(ids) |-> OutcomeClosedPosition(ids[n], o[ids[n]])],
          open |-> LET ids == SelectSeq(assets, LAMBDA k : o[k] = "open")
                   IN  [n \in 1..Len(ids) |-> OutcomeOpenPosition(ids[n])],
          trades |-> ConcatAll([k \in 1..MaxAssets |-> OutcomeTrades(k, d[k])]),
          failing |-> "none"] :
            o \in [1..MaxAssets -> OutcomeChoices], d \in [1..MaxAssets -> TradeDayChoices]}

\* an analyzer for such a wallet, without a window
OutcomeEntry ==
    /\ api \in OutcomeApis
    /\ window = [start |-> None, end |-> None]
    /\ Constructed

\* open positions without an end date, ending on day 3, and ending on the day
\* after 2099-12-31
UndatedChoices ==
    LET held == CHOOSE o \in OpenPositionChoices : o.asset = 2
    IN  {[held EXCEPT !.endDate = d] : d \in {None, 3, far_future + 1}}

\* wallets with such open positions
UndatedApis ==
    [closed : SeqsUpTo(ClosedPositionChoices, 1),
     open : SeqsUpTo(UndatedChoices, MaxUndated),
     trades : SeqsUpTo(TradeChoices, 1),
     failing : {"none"}]

\* an analyzer for such a wallet: no window, the days 2 to 3, or up to day 3
UndatedEntry ==
    /\ api \in UndatedApis
    /\ window \in WindowChoices \cup {[start |-> None, end |-> 3]}
    /\ Constructed

\* an analyzer on which run_full_analysis is called more than once
RerunEntry == AnEntry /\ api \in RerunApiChoices

NextRerun ==
    \/ NextAn
    \/ RunFullAnalysisAgain

-----------------------------------------------------------------------------
(* Specifications *)

\* the component that is not at work stays as it is
WalkIdle ==
    /\ args = WalkArg("positions", 0, None, None, "CURRENT", None, 0)
    /\ pc = "done"
    /\ offset = 0 /\ all_records = <<>> /\ consecutive_old_batches = 0
    /\ sort_by = "CURRENT" /\ sort_direction = "DESC" /\ batch_index = 0
    /\ req = [offset |-> None, limit |-> None, sort_by |-> "NA", sort_direction |-> "NA"]
    /\ status = 0 /\ nreq = 0 /\ n429 = 0 /\ result = <<>>

SnapIdle ==
    /\ snap_args = [timeframes |-> NoTimeframes, max_retries |-> 0]
    /\ store = [exists |-> FALSE, rows |-> <<>>]
    /\ snap_pc = "off"
    /\ current_scrape = 0 /\ attempt = 0 /\ all_data = <<>> /\ failed_scrapes = <<>>
    /\ snapshot_df = <<>> /\ malformed_seen = FALSE

JobIdle ==
    /\ job_max_retries = 0 /\ job_pc = "off" /\ job_attempt = 0 /\ job_calls = 0
    /\ job_result = <<>>

\* the snapshot collector's variables while the job's attempts stand for it
SnapIdleButStore ==
    /\ snap_args = JobSnapArgs
    /\ snap_pc = "off"
    /\ current_scrape = 0 /\ attempt = 0 /\ all_data = <<>> /\ failed_scrapes = <<>>
    /\ snapshot_df = <<>> /\ malformed_seen = FALSE

AnIdle ==
    /\ api = [closed |-> <<>>, open |-> <<>>, trades |-> <<>>, failing |-> "none"]
    /\ window = [start |-> None, end |-> None]
    /\ an_pc = "off"
    /\ df = <<>> /\ all_trades_df = <<>> /\ df_aggregated = <<>> /\ trade_dfs = <<>>
    /\ title_mapping = <<>> /\ summary_df = <<>> /\ winning_df = <<>> /\ losing_df = <<>>
    /\ portfolio = NoPortfolio /\ runs = 0

InitWalk == WalkEntry /\ SnapIdle /\ AnIdle /\ JobIdle
InitSnap == SnapEntry /\ WalkIdle /\ AnIdle /\ JobIdle
InitAn == AnEntry /\ WalkIdle /\ SnapIdle /\ JobIdle

SpecWalk == InitWalk /\ [][NextWalk]_vars
SpecSnap == InitSnap /\ [][NextSnap]_vars

\* get_all_user_trades alone.  The walk runs in one thread that keeps
\* executing its loop, each request being answered: the loop's next iteration
\* is taken whenever there is one.
InitTrades == InitWalk /\ args.walk = "trades"

\* get_all_user_positions and get_all_closed_positions alone, the walks that
\* retry a 429, over servers holding a few pages.  The server answers 429 at
\* most Max429 times in a walk, and the loop's next iteration is taken whenever
\* there is one.
InitRetryingWalks ==
    /\ InitWalk
    /\ args.walk \in {"positions", "closed"}
    /\ args.N \notin CapSizes
    /\ args.walk = "closed" =>
          /\ args.sort_by = "TIMESTAMP"
          /\ <<args.start_timestamp, args.end_timestamp>>
                \in {<<None, None>>, <<140, None>>}
NextRetryingWalks ==
    \/ GetAllUserPositionsStep
    \/ GetAllClosedPositionsStep
SpecRetryingWalksFair ==
    InitRetryingWalks /\ [][NextRetryingWalks]_vars /\ WF_vars(NextRetryingWalks)
SpecTradesFair ==
    InitTrades /\ [][GetAllUserTradesStep]_vars /\ WF_vars(GetAllUserTradesStep)
SpecAn == InitAn /\ [][NextAn]_vars

InitScenario == ScenarioEntry /\ WalkIdle /\ SnapIdle /\ JobIdle
SpecScenario == InitScenario /\ [][NextAn]_vars

InitMatching == MatchingEntry /\ WalkIdle /\ SnapIdle /\ JobIdle
SpecMatching == InitMatching /\ [][NextAn]_vars

InitOutcomes == OutcomeEntry /\ WalkIdle /\ SnapIdle /\ JobIdle
SpecOutcomes == InitOutcomes /\ [][NextAn]_vars

InitJob == JobEntry /\ SnapIdleButStore /\ WalkIdle /\ AnIdle
SpecJob == InitJob /\ [][NextJob]_vars

InitUndated == UndatedEntry /\ WalkIdle /\ SnapIdle /\ JobIdle
SpecUndated == InitUndated /\ [][NextAn]_vars

InitRerun == RerunEntry /\ WalkIdle /\ SnapIdle /\ JobIdle
SpecRerun == InitRerun /\ [][NextRerun]_vars

-----------------------------------------------------------------------------
(* Claims about the paginated walks (checked under SpecWalk) *)

\* the walk has returned
Returned == pc = "done"

\* the response to the request issued last is an HTTP error other than 429
FatalStatus(st) == st \notin {0, HTTP_OK, HTTP_RATE_LIMITED}

\* C1: for a server holding N < 10,000 records, with no max_results and no time
\* window, get_all_user_positions, get_all_closed_positions, get_all_user_trades
\* and get_all_user_activity return exactly the server's N records in server
\* order: none duplicated, none skipped.
C1_WalkReturnsAllRecords ==
    ( /\ Returned
      /\ args.walk \in {"positions", "closed", "trades", "activity"}
      /\ args.N < API_MAX_OFFSET
      /\ args.max_results = None
      /\ ~use_early_stopping(args) )
    => result = Server(args, sort_by, sort_direction)

\* a 20-page trades walk over 9,999 records has returned all of them
C1_Witness ==
    /\ Returned
    /\ args.walk = "trades" /\ args.max_results = None
    /\ args.N = API_MAX_OFFSET - 1
    /\ nreq = 20
    /\ result = ListServer(API_MAX_OFFSET - 1)

\* C2 (as claimed): with max_results supplied, get_all_user_trades and
\* get_all_user_activity return exactly min(N, max_results) records, never more
\* than max_results, also when the bound is reached on a short page.
C2_MaxResultsIsExact ==
    ( /\ Returned
      /\ args.walk \in {"trades", "activity"}
      /\ args.max_results # None )
    => Len(result) = Min(args.N, args.max_results)

\* C3: in get_all_user_positions and get_all_closed_positions a 429 response
\* leaves the walk in its loop with offset, accumulated list, early-stopping
\* counter and sort parameters unchanged, however many 429s came before, and the
\* request issued after a 429 equals the request that was answered 429.
C3_RateLimitRetriesSamePage ==
    [][ /\ ( /\ args.walk \in {"positions", "closed"}
             /\ nreq' = nreq + 1
             /\ status' = HTTP_RATE_LIMITED )
           => /\ pc' = "loop"
              /\ offset' = offset
              /\ all_records' = all_records
              /\ consecutive_old_batches' = consecutive_old_batches
              /\ sort_by' = sort_by /\ sort_direction' = sort_direction
        /\ ( /\ args.walk \in {"positions", "closed"}
             /\ nreq' = nreq + 1
             /\ status = HTTP_RATE_LIMITED )
           => req' = req
      ]_vars

\* a closed-positions walk in mid-flight (pages fetched, counter running) has
\* just been answered 429 for the second time in a row and is still looping
C3_Witness ==
    /\ args.walk = "closed"
    /\ status = HTTP_RATE_LIMITED /\ n429 = 2
    /\ pc = "loop"
    /\ offset > 0 /\ req.offset = offset
    /\ consecutive_old_batches > 0

\* C4 (as claimed): in every paginated walk a 429 response is retried and never
\* reaches the caller as an exception.
C4_RateLimitNeverRaises ==
    status = HTTP_RATE_LIMITED => pc = "loop"

\* C5: in every walk an HTTP error other than 429 raises at once: the walk ends
\* raised with nothing returned, and once raised it issues no further request
\* and returns no list.
C5_FatalErrorRaisesAtOnce ==
    [][ /\ (nreq' = nreq + 1 /\ FatalStatus(status'))
           => (pc' = "raised" /\ result' = <<>> /\ all_records' = all_records)
        /\ pc = "raised"
           => (pc' = "raised" /\ nreq' = nreq /\ result' = result)
      ]_vars

\* a positions walk that had already fetched a full page was answered 500 and
\* raised
C5_Witness ==
    /\ args.walk = "positions"
    /\ status = HTTP_SERVER_ERROR
    /\ pc = "raised"
    /\ Len(all_records) = POSITIONS_LIMIT
    /\ nreq = 2

\* C6 (as claimed): with a window [start, end] and the server sorted by timestamp
\* descending, get_all_closed_positions returns exactly the server's records
\* whose timestamp lies in the window, however many newer records precede it.
C6_WindowIsComplete ==
    ( /\ Returned
      /\ args.walk = "closed"
      /\ Truthy(args.start_timestamp) /\ Truthy(args.end_timestamp) )
    => result = filtered_positions(ClosedServer(args.N, "TIMESTAMP", "DESC"),
                                   args.start_timestamp, args.end_timestamp)

\* C12: get_all_user_trades and get_all_user_activity never issue a page request
\* with an offset greater than 10,000, and a walk the offset limit stopped has
\* returned, without raising, the records collected up to the limit.
C12_TradesStopAtMaxOffset ==
    (args.walk \in {"trades", "activity"} /\ nreq > 0) =>
        /\ req.offset <= API_MAX_OFFSET
        /\ (status = HTTP_OK /\ offset_limit_reached(req.offset, req.limit)) =>
              /\ pc = "done"
              /\ result = all_records
              /\ result = Truncate(ListServer(args.N), API_MAX_OFFSET)

\* a trades walk over more than 10,000 records was stopped by the offset limit
\* and returned the first 10,000
C12_Witness ==
    /\ args.walk = "trades" /\ args.N > API_MAX_OFFSET
    /\ pc = "done"
    /\ req.offset = API_MAX_OFFSET - TRADES_LIMIT
    /\ Len(result) = API_MAX_OFFSET

\* C13 (as claimed): get_all_closed_positions and get_all_user_positions never
\* issue a page request with an offset greater than 10,000.
C13_PositionsStopAtMaxOffset ==
    (args.walk \in {"positions", "closed"} /\ nreq > 0) => req.offset <= API_MAX_OFFSET

\* a returned walk that only the end of the server's list could stop: no
\* max_results, no time window, fewer records than the offset limit
PlainWalkReturned ==
    /\ pc = "done"
    /\ args.walk \in {"positions", "closed", "trades", "activity"}
    /\ ~Truthy(args.max_results)
    /\ ~use_early_stopping(args)
    /\ args.N < API_MAX_OFFSET

\* page requests answered with a page (a returned walk got no other answer
\* than 429 and 200)
PagesFetched == nreq - n429

\* C14 (as claimed): over N records with page size L the walk issues exactly
\* N/L page requests when N is a positive multiple of L, and when N is not a
\* multiple of L the last request is the one that returns the short page.
C14_NoRequestForEmptyPage ==
    PlainWalkReturned =>
        LET L == page_size(args.walk)
        IN  /\ (args.N > 0 /\ args.N % L = 0) => PagesFetched = args.N \div L
            /\ args.N % L # 0 => req.offset = (args.N \div L) * L

\* C14 (amended): the walk cannot know N, so it fetches (N div L) + 1 pages,
\* the last at offset (N div L) * L: when N is a multiple of L this last page
\* is an empty one, requested after the N/L full pages; when N is not a
\* multiple it is the short page and ceil(N/L) pages were fetched.
C14_StopsAtFirstShortPage ==
    PlainWalkReturned =>
        LET L == page_size(args.walk)
            last == Page(Server(args, sort_by, sort_direction), req.offset, L)
        IN  /\ PagesFetched = (args.N \div L) + 1
            /\ req.offset = (args.N \div L) * L
            /\ req.limit = L
            /\ Len(last) = args.N % L
            /\ Len(result) = args.N

\* a positions walk over exactly two full pages fetched a third, empty page
C14_Witness ==
    /\ PlainWalkReturned
    /\ args.walk = "positions" /\ args.N = 2 * POSITIONS_LIMIT
    /\ PagesFetched = 3
    /\ req.offset = args.N
    /\ Len(result) = args.N

\* C21 (as claimed): scrape_leaderboard returns the top-N entries for the
\* requested total N: the first min(N, available) entries in rank order, also
\* when N is not a multiple of the batch size 20.
C21_LeaderboardReturnsTopN ==
    (Returned /\ args.walk = "leaderboard")
        => result = Truncate(ListServer(args.N), args.total)

\* the filter arguments as get_all_user_trades was given them: exactly one of
\* filter_type and filter_amount
ExactlyOneFilterArgument ==
    /\ args.walk = "trades"
    /\ (args.filter_type = "None") # (args.filter_amount = None)

\* C22: a get_all_user_trades call that supplies exactly one of filter_type and
\* filter_amount issues no page request at all and does not return: the first
\* get_user_trades call raises ValueError before its request.
C22_FilterPairValidated ==
    /\ [](ExactlyOneFilterArgument => (nreq = 0 /\ status = 0 /\ pc \in {"loop", "raised"}))
    /\ [][(ExactlyOneFilterArgument /\ pc = "loop") => (pc' = "raised" /\ nreq' = 0)]_vars

\* a call with filter_type = "CASH" and no filter_amount has raised without a
\* request, against a server that holds trades
C22_Witness ==
    /\ args.walk = "trades" /\ args.N > 0
    /\ args.filter_type = "CASH" /\ args.filter_amount = None
    /\ pc = "raised"
    /\ nreq = 0

\* get_all_closed_positions has returned from a call with a time window
WindowedWalkReturned == Returned /\ args.walk = "closed" /\ use_early_stopping(args)

\* C23: every record get_all_closed_positions returns for a window has
\* start <= timestamp <= end (each bound that was given, inclusive), every
\* fetched record inside the window is returned, and filtering the returned
\* list by the same window gives the identical list.
C23_WindowFilterExactAndIdempotent ==
    WindowedWalkReturned =>
        /\ \A k \in 1..Len(result) :
              /\ Truthy(args.start_timestamp) => result[k].timestamp >= args.start_timestamp
              /\ Truthy(args.end_timestamp) => result[k].timestamp <= args.end_timestamp
        /\ \A k \in 1..Len(all_records) :
              ( /\ Truthy(args.start_timestamp) => all_records[k].timestamp >= args.start_timestamp
                /\ Truthy(args.end_timestamp) => all_records[k].timestamp <= args.end_timestamp )
              => \E j \in 1..Len(result) : result[j] = all_records[k]
        /\ filtered_positions(result, args.start_timestamp, args.end_timestamp) = result

\* a walk for the window 2..5 fetched 26 records and returned the four with
\* timestamps 5, 4, 3 and 2, both bounds included
C23_Witness ==
    /\ WindowedWalkReturned
    /\ args.start_timestamp = 2 /\ args.end_timestamp = 5
    /\ Len(all_records) = CLOSED_LIMIT + 1
    /\ Len(result) = 4
    /\ result[1].timestamp = 5 /\ result[4].timestamp = 2

\* the pages get_all_closed_positions has fetched so far, and the j-th of them
FetchedPages == (Len(all_records) + CLOSED_LIMIT - 1) \div CLOSED_LIMIT
FetchedPage(j) ==
    SubSeq(all_records, (j - 1) * CLOSED_LIMIT + 1, Min(j * CLOSED_LIMIT, Len(all_records)))

\* the j-th fetched page holds no record inside the window
OutOfWindowPage(j) ==
    \A k \in 1..Len(FetchedPage(j)) :
        ~InWindow(FetchedPage(j)[k].timestamp, args.start_timestamp, args.end_timestamp)

\* how many of the most recently fetched pages, counted back from the last, hold
\* no record inside the window
TrailingOutOfWindowPages ==
    Cardinality({m \in 1..FetchedPages :
                    \A j \in (FetchedPages - m + 1)..FetchedPages : OutOfWindowPage(j)})

\* the walk returned on the early-stopping heuristic: the count reached the
\* threshold, or the walk ended on a full page
StoppedByHeuristic ==
    /\ Returned /\ args.walk = "closed"
    /\ \/ consecutive_old_batches >= OLD_BATCHES_STOP
       \/ (Len(all_records) > 0 /\ Len(all_records) = req.offset + CLOSED_LIMIT)

\* C27: in get_all_closed_positions with a window, consecutive_old_batches is
\* the number of most recently fetched pages in a row without a record inside
\* the window (so a page with such a record makes it 0), the heuristic stops the
\* walk only when the 5 most recently fetched pages were all without one, and
\* without a window the heuristic never stops the walk.
C27_EarlyStoppingHeuristic ==
    args.walk = "closed" =>
        /\ use_early_stopping(args) => consecutive_old_batches = TrailingOutOfWindowPages
        /\ StoppedByHeuristic =>
              /\ use_early_stopping(args)
              /\ FetchedPages >= OLD_BATCHES_STOP
              /\ \A j \in (FetchedPages - OLD_BATCHES_STOP + 1)..FetchedPages : OutOfWindowPage(j)

\* a walk for the records from timestamp 140 on found some in its first page
\* of 151 records, newest first, then none in five pages, and stopped there
C27_Witness ==
    /\ StoppedByHeuristic
    /\ args.start_timestamp = 140 /\ args.end_timestamp = None
    /\ args.N = 6 * CLOSED_LIMIT + 1
    /\ ~OutOfWindowPage(1)
    /\ Len(all_records) = 6 * CLOSED_LIMIT
    /\ consecutive_old_batches = OLD_BATCHES_STOP

\* C28 (as claimed): in get_all_user_trades and get_all_user_activity called
\* with a max_results, once a page has been received and the accumulated count
\* is at least max_results, no further page request is issued.
C28_NoRequestPastMaxResults ==
    [][( /\ args.walk \in {"trades", "activity"}
         /\ args.max_results # None
         /\ PagesFetched > 0 /\ status = HTTP_OK
         /\ Len(all_records) >= args.max_results )
       => nreq' = nreq]_vars

\* the step issues a page request that is answered with a page
PageReceived == nreq' = nreq + 1 /\ status' = HTTP_OK

\* C29: in every walk the k-th request answered with a page is issued with the
\* walk's page size at offset (k - 1) * L, which is the length of the list
\* accumulated so far, so that no offset is repeated or skipped; and in the
\* walks that keep an offset it changes only by a step that received a full
\* page, and then by exactly the page size.
C29_OffsetAdvancesByFullPages ==
    [][LET L == page_size(args.walk)
       IN  /\ PageReceived =>
                 /\ req'.limit = L
                 /\ req'.offset = (nreq - n429) * L
                 /\ req'.offset = Len(all_records)
           /\ (args.walk # "leaderboard" /\ offset' # offset) =>
                 /\ PageReceived
                 /\ Len(all_records') = Len(all_records) + L
                 /\ offset' = offset + L
                 /\ offset' = Len(all_records')
      ]_vars

\* a positions walk was rate limited, then received full pages at offsets 0
\* and 500 and moved its offset to 1000
C29_Witness ==
    /\ args.walk = "positions"
    /\ pc = "loop" /\ status = HTTP_OK
    /\ n429 > 0
    /\ req.offset = POSITIONS_LIMIT
    /\ offset = 2 * POSITIONS_LIMIT
    /\ Len(all_records) = 2 * POSITIONS_LIMIT

\* the walk is over: it returned or raised
WalkOver == pc \in {"done", "raised"}

\* C35: get_all_user_trades issues at most 20 page requests whatever the
\* server holds, full pages without end included; it always comes to an end;
\* when it has returned, the last page was short or max_results was reached or
\* the next offset would have been 10,000 or more, and when it has raised, a
\* response was an HTTP error or the filter arguments were rejected.
C35_TradesWalkTerminates ==
    /\ [](args.walk = "trades" =>
            /\ nreq <= API_MAX_OFFSET \div TRADES_LIMIT
            /\ pc = "done" =>
                  \/ Len(all_records) < req.offset + TRADES_LIMIT
                  \/ (Truthy(args.max_results) /\ Len(result) = args.max_results)
                  \/ req.offset + TRADES_LIMIT >= API_MAX_OFFSET
            /\ pc = "raised" =>
                  \/ status \in {HTTP_RATE_LIMITED, HTTP_SERVER_ERROR}
                  \/ (nreq = 0 /\ filter_rejected(args.filter_type, args.filter_amount)))
    /\ (args.walk = "trades") ~> WalkOver

\* over a server that never runs out of full pages the walk returned the
\* 10,000 records of its 20 requests
C35_Witness ==
    /\ args.walk = "trades" /\ pc = "done"
    /\ args.N = API_MAX_OFFSET + BeyondCap
    /\ args.max_results = None
    /\ nreq = API_MAX_OFFSET \div TRADES_LIMIT
    /\ Len(result) = API_MAX_OFFSET

\* C36: over a server that holds finitely many records and answers 429 only
\* finitely often, get_all_user_positions and get_all_closed_positions come to
\* an end, returning or raising; until then every request that is not
\* answered 429 fetches a further page of the N records, of which there are
\* at most N div L + 1.
C36_RetryingWalksTerminate ==
    /\ [](args.walk \in {"positions", "closed"} =>
            PagesFetched <= args.N \div page_size(args.walk) + 1)
    /\ (args.walk \in {"positions", "closed"}) ~> WalkOver

\* a closed-positions walk was answered 429 twice and still returned all of
\* the server's records
C36_Witness ==
    /\ args.walk = "closed" /\ pc = "done"
    /\ n429 = Max429
    /\ args.N = 2 * CLOSED_LIMIT + 1
    /\ Len(all_records) = args.N

-----------------------------------------------------------------------------
(* Claims about the snapshot collector (checked under SpecSnap) *)

\* scrape_leaderboard_snapshot has returned or raised
SnapFinished == snap_pc \in {"done", "raised"}

\* C9: scrape_leaderboard_snapshot raises 'Scrape quality too low' exactly when
\* the combinations that failed their last attempt are strictly more than 30% of
\* all combinations, and otherwise returns the collected table; with the 10
\* categories and one timeframe it returns with 0 to 3 failures and raises with
\* 4 or more.
C9_QualityGate ==
    SnapFinished =>
        /\ snap_pc = "raised" <=> 10 * Len(failed_scrapes) > 3 * total_scrapes(snap_args)
        /\ total_scrapes(snap_args) = 10 =>
              /\ Len(failed_scrapes) \in 0..3 => snap_pc = "done"
              /\ Len(failed_scrapes) >= 4 => snap_pc = "raised"
        /\ snap_pc = "done" => snapshot_df = all_data

\* a run over the 10 categories with exactly 3 failed combinations has returned
\* the rows of the other 7
C9_Witness ==
    /\ snap_pc = "done"
    /\ total_scrapes(snap_args) = 10
    /\ snap_args.max_retries = 3
    /\ Len(failed_scrapes) = 3
    /\ Len(snapshot_df) = 7 * UsersPerScrape

\* C10 (as claimed): a call that fails the quality gate writes nothing: the
\* capture date's file holds the same rows after the call as before it.
C10_FailedRunWritesNothing ==
    [][snap_pc' = "raised" => store'.rows = store.rows]_vars

\* the attempt made by the step succeeded: all of its users were appended
AttemptSucceeded == Len(all_data') = Len(all_data) + UsersPerScrape

\* the attempt made by the step was the combination's last and failed
AttemptsExhausted == failed_scrapes' # failed_scrapes

\* C11: every attempt made for a combination is one of its first max_retries;
\* after a successful attempt, and after the last failed one, the run moves to
\* the next combination (the same combination is never attempted again), after
\* any other failed attempt it retries the same combination, and it ends only
\* at the last combination: a failed combination does not abort the run.
C11_RetriesPerCombination ==
    [][snap_pc = "fetch" =>
        /\ attempt < snap_args.max_retries
        /\ current_scrape \in 1..total_scrapes(snap_args)
        /\ (AttemptSucceeded \/ AttemptsExhausted) =>
              IF current_scrape < total_scrapes(snap_args)
              THEN snap_pc' = "fetch" /\ current_scrape' = current_scrape + 1 /\ attempt' = 0
              ELSE snap_pc' \in {"done", "raised"}
        /\ ~(AttemptSucceeded \/ AttemptsExhausted) =>
              snap_pc' = "fetch" /\ current_scrape' = current_scrape /\ attempt' = attempt + 1
        /\ AttemptsExhausted => attempt = snap_args.max_retries - 1
       ]_vars

\* the first combination failed all three of its attempts, and the run went on
\* to collect the rows of the last combination and returned
C11_Witness ==
    /\ snap_pc = "done"
    /\ snap_args.max_retries = 3
    /\ total_scrapes(snap_args) = Len(categories)
    /\ failed_scrapes = <<Combination(snap_args, 1)>>
    /\ \E k \in 1..Len(all_data) : all_data[k].category = category_of(Len(categories))

\* C26: the step that ends scrape_leaderboard_snapshot appends the rows of the
\* new snapshot after the rows the capture date's file already holds, which
\* stay as they are, or, when the file does not exist, creates it holding
\* exactly the new rows; no other step touches the file.
C26_StoreAppendedOrCreated ==
    [][IF snap_pc' \in {"done", "raised"}
       THEN /\ store'.exists
            /\ store'.rows = (IF store.exists THEN store.rows \o all_data' ELSE all_data')
       ELSE store' = store]_vars

\* a run over the 10 categories has returned and the file that held one row of
\* an earlier capture holds that row followed by the rows of the new snapshot
C26_Witness ==
    /\ snap_pc = "done"
    /\ Len(snapshot_df) = Len(categories) * UsersPerScrape
    /\ Len(store.rows) = 1 + Len(snapshot_df)
    /\ store.rows[1].timestamp = EarlierCaptureTime
    /\ \A k \in 1..Len(snapshot_df) : store.rows[1 + k] = snapshot_df[k]

\* the rows of the table collected for combination n
RowsOfCombination(n) ==
    SelectSeq(all_data, LAMBDA row : /\ row.timeframe = timeframe_of(snap_args, n)
                                     /\ row.category = category_of(n))

\* combination n had a successful attempt: the last of its users was appended
Succeeded(n) ==
    \E k \in 1..Len(RowsOfCombination(n)) : RowsOfCombination(n)[k].rank = UsersPerScrape

\* combination n is listed in failed_scrapes
RecordedFailed(n) ==
    \E k \in 1..Len(failed_scrapes) : failed_scrapes[k] = Combination(snap_args, n)

\* C32 (as claimed): when scrape_leaderboard_snapshot is through its loops,
\* every combination either had a successful attempt or is in failed_scrapes,
\* so the successes and the recorded failures add up to total_scrapes, for
\* every max_retries >= 0.
C32_EveryCombinationAccounted ==
    SnapFinished =>
        /\ \A n \in 1..total_scrapes(snap_args) : Succeeded(n) \/ RecordedFailed(n)
        /\ Cardinality({n \in 1..total_scrapes(snap_args) : Succeeded(n)})
              + Len(failed_scrapes) = total_scrapes(snap_args)

\* C33 (as claimed): in the table scrape_leaderboard_snapshot returns no
\* leaderboard entry appears twice, and a combination listed in failed_scrapes
\* has no row: the attempts that failed contributed nothing.
C33_RowsFromOneAttempt ==
    snap_pc = "done" =>
        /\ \A j, k \in 1..Len(snapshot_df) : snapshot_df[j] = snapshot_df[k] => j = k
        /\ \A n \in 1..total_scrapes(snap_args) :
              RecordedFailed(n) =>
                  ~\E k \in 1..Len(snapshot_df) :
                      /\ snapshot_df[k].timeframe = timeframe_of(snap_args, n)
                      /\ snapshot_df[k].category = category_of(n)

-----------------------------------------------------------------------------
(* Claims about the analyzer (checked under SpecAn) *)

\* the positions (row numbers of df) of an asset
DfRowsOf(asset_id) == {k \in 1..Len(df) : df[k].asset = asset_id}

RECURSIVE PnlOver(_)
\* the sum of realizedPnl over a set of rows of df
PnlOver(rows) ==
    IF rows = {} THEN 0
    ELSE LET k == CHOOSE k \in rows : TRUE
         IN  df[k].realizedPnl + PnlOver(rows \ {k})

\* process_trades has aggregated df
HasAggregated ==
    /\ an_pc \in {"create_summary", "portfolio_summary", "done"}
    /\ df # <<>> /\ all_trades_df # <<>>

\* C7 (as claimed): the summary row create_summary produces for an asset carries
\* the asset's aggregated values: realizedPnl is the sum over all position rows
\* with the asset id and closed the AND of their closed flags, re-entries
\* included.
C7_SummaryCarriesAggregate ==
    (an_pc = "done" /\ df # <<>>) =>
        \A n \in 1..Len(summary_df) :
            LET rows == DfRowsOf(summary_df[n].asset)
            IN  /\ summary_df[n].realizedPnl = PnlOver(rows)
                /\ summary_df[n].closed = (\A k \in rows : df[k].closed)

\* C8: process_trades collapses df to exactly one aggregated row per distinct
\* asset id; the row's realizedPnl is the sum over the asset's rows, closed is
\* true only if every one of them is closed, timestamp is their maximum, and
\* title and eventSlug are those of the asset's first row in df.
C8_OneAggregatedRowPerAsset ==
    HasAggregated =>
        /\ Len(df_aggregated) = Cardinality({df[k].asset : k \in 1..Len(df)})
        /\ \A k \in 1..Len(df) :
              Cardinality({g \in 1..Len(df_aggregated) :
                              df_aggregated[g].asset = df[k].asset}) = 1
        /\ \A g \in 1..Len(df_aggregated) :
              LET rows == DfRowsOf(df_aggregated[g].asset)
                  first == CHOOSE k \in rows : \A j \in rows : k <= j
              IN  /\ rows # {}
                  /\ df_aggregated[g].realizedPnl = PnlOver(rows)
                  /\ df_aggregated[g].closed = (\A k \in rows : df[k].closed)
                  /\ \A k \in rows : df[k].timestamp <= df_aggregated[g].timestamp
                  /\ \E k \in rows : df[k].timestamp = df_aggregated[g].timestamp
                  /\ df_aggregated[g].title = df[first].title
                  /\ df_aggregated[g].eventSlug = df[first].eventSlug

\* two closed rows of one asset with realizedPnl 10 and -3 were aggregated to one
\* row with realizedPnl 7, closed, carrying the first row's title
C8_Witness ==
    /\ HasAggregated
    /\ Len(df) = 2
    /\ df[1].asset = df[2].asset
    /\ df[1].realizedPnl = 10 /\ df[2].realizedPnl = -3
    /\ df[1].title # df[2].title
    /\ Len(df_aggregated) = 1
    /\ df_aggregated[1].realizedPnl = 7
    /\ df_aggregated[1].closed
    /\ df_aggregated[1].title = df[1].title

\* portfolio_summary has computed its figures in the run that just finished
PortfolioComputed == an_pc = "done" /\ portfolio.computed

\* C18: in portfolio_summary realized_pnl is the sum of realizedPnl over the
\* rows of df with closed = true, unrealized_pnl the sum over the rows with
\* closed = false and total_pnl the sum over all rows, so that
\* total_pnl = realized_pnl + unrealized_pnl.
C18_PortfolioRollup ==
    PortfolioComputed =>
        /\ portfolio.realized_pnl = PnlOver({k \in 1..Len(df) : df[k].closed})
        /\ portfolio.unrealized_pnl = PnlOver({k \in 1..Len(df) : ~df[k].closed})
        /\ portfolio.total_pnl = PnlOver(1..Len(df))
        /\ portfolio.total_pnl = portfolio.realized_pnl + portfolio.unrealized_pnl

\* closed rows worth 10 and -3 and an open row worth 5 were rolled up to
\* realized 7, unrealized 5, total 12
C18_Witness ==
    /\ PortfolioComputed
    /\ Len(df) = 3
    /\ portfolio.realized_pnl = 7
    /\ portfolio.unrealized_pnl = 5
    /\ portfolio.total_pnl = 12

\* C19: roi_pct of a summary row is exactly 0 whenever the row's total_invested
\* is 0 (a position with only SELL trades), and overall_roi is exactly 0
\* whenever the portfolio's total_invested is 0; neither case raises.
C19_RoiIsZeroWithoutInvestment ==
    /\ an_pc \in {"portfolio_summary", "done"} =>
          \A n \in 1..Len(summary_df) :
              summary_df[n].total_invested = 0 => summary_df[n].roi_pct = <<0, 1>>
    /\ PortfolioComputed =>
          (portfolio.total_invested = 0 => portfolio.overall_roi = <<0, 1>>)
    /\ (an_pc = "raised" => df = <<>>)

\* a position with a profit and only a SELL trade was summarised, and the
\* portfolio figures were computed with nothing invested
C19_Witness ==
    /\ PortfolioComputed
    /\ Len(summary_df) = 1
    /\ summary_df[1].has_sells
    /\ summary_df[1].total_invested = 0
    /\ summary_df[1].realizedPnl > 0
    /\ summary_df[1].roi_pct = <<0, 1>>
    /\ portfolio.total_invested = 0
    /\ portfolio.total_pnl > 0
    /\ portfolio.overall_roi = <<0, 1>>

\* fetch_event_ids has run on a non-empty position table
EventIdsFetched ==
    /\ an_pc \in {"load_trades", "process_trades", "create_summary", "portfolio_summary", "done"}
    /\ df # <<>>

\* load_trades has run on a non-empty position table
TradesLoaded ==
    /\ an_pc \in {"process_trades", "create_summary", "portfolio_summary", "done"}
    /\ df # <<>>

\* the trade t of the API is a row of all_trades_df
IsLoaded(t) ==
    \E j \in 1..Len(all_trades_df) :
        /\ all_trades_df[j].asset = t.asset
        /\ all_trades_df[j].side = t.side
        /\ all_trades_df[j].size = t.size
        /\ all_trades_df[j].price = t.price
        /\ all_trades_df[j].timestamp = t.timestamp

\* C20: a failing slug lookup or a failing trade fetch of one event does not
\* abort the load: after fetch_event_ids the rows of the failing slug carry a
\* null event id and every other row its event's id, and after load_trades the
\* trade table holds every trade (inside the window) of every event that was
\* resolved and whose own fetch did not fail.
C20_OneFailureDoesNotAbort ==
    /\ EventIdsFetched =>
          \A k \in 1..Len(df) :
              df[k].eventId = IF api.failing = "slug" /\ df[k].eventSlug = "event-a"
                              THEN None ELSE EventId(df[k].eventSlug)
    /\ TradesLoaded =>
          \A n \in 1..Len(api.trades) :
              LET t == api.trades[n]
                  resolved == \E k \in 1..Len(df) :
                                /\ df[k].eventId # None
                                /\ df[k].eventId = EventId(t.eventSlug)
                  fetched == ~(api.failing = "trades" /\ t.eventSlug = "event-a")
              IN  (resolved /\ fetched /\ InWindow(t.timestamp, window.start, window.end))
                      => IsLoaded(t)

\* the lookup of event-a failed: its position carries a null event id, the
\* position of event-b was resolved and its trade was loaded, and the run
\* finished
C20_Witness ==
    /\ an_pc = "done"
    /\ api.failing = "slug"
    /\ \E k \in 1..Len(df) : df[k].eventSlug = "event-a" /\ df[k].eventId = None
    /\ \E k \in 1..Len(df) : df[k].eventSlug = "event-b" /\ df[k].eventId = EventId("event-b")
    /\ Len(api.trades) = 2
    /\ Len(all_trades_df) = 1
    /\ all_trades_df[1].eventSlug = "event-b"

\* the trades of an event in a trade table, as a set of row numbers
TradesOfEvent(rows, slug) == {k \in 1..Len(rows) : rows[k].eventSlug = slug}

\* the trades of an event the API holds inside the window
ServedTradesOfEvent(slug) ==
    {k \in TradesOfEvent(api.trades, slug) :
        InWindow(api.trades[k].timestamp, window.start, window.end)}

\* some position of df carries the event's id
Resolved(positions, slug) ==
    \E k \in 1..Len(positions) : positions[k].eventId = EventId(slug)

C38_TradeClosedFlagIsAggregate ==
    TradesLoaded =>
        \A j \in 1..Len(all_trades_df) :
            DfRowsOf(all_trades_df[j].asset) # {} =>
                (all_trades_df[j].closed = "True"
                    <=> \A k \in DfRowsOf(all_trades_df[j].asset) : df[k].closed)

\* the number of rows of a table equal to row
RowCount(rows, row) == Cardinality({k \in 1..Len(rows) : rows[k] = row})

\* the API's positions as rows, closed ones first
PositionRows ==
    [k \in 1..Len(api.closed) |-> ClosedRow(api.closed[k])]
        \o [k \in 1..Len(api.open) |-> OpenRow(api.open[k])]

\* C24: load_positions leaves in df the closed and the open positions (those
\* inside the window when one is given, each as often as the API holds it),
\* ordered by timestamp descending, and with a window every row of df, closed
\* or open, has its timestamp inside [start, end].
C24_MergedTableSortedAndInWindow ==
    [][(an_pc = "load_positions" /\ an_pc' \in {"fetch_event_ids", "done"}) =>
         /\ \A k \in 1..Len(df') - 1 : df'[k].timestamp >= df'[k + 1].timestamp
         /\ \A k \in 1..Len(df') :
               /\ Truthy(window.start) => df'[k].timestamp >= window.start
               /\ Truthy(window.end) => df'[k].timestamp <= window.end
         /\ \A k \in 1..Len(PositionRows) :
               LET row == PositionRows[k]
               IN  RowCount(df', row) =
                      IF InWindow(row.timestamp, window.start, window.end)
                      THEN RowCount(PositionRows, row) ELSE 0
         /\ \A k \in 1..Len(df') : RowCount(PositionRows, df'[k]) > 0]_vars

\* with the window 2..3, load_positions has dropped a closed position of day 1
\* and kept a closed position of day 2 below an open position ending on day 3
C24_Witness ==
    /\ an_pc = "fetch_event_ids"
    /\ window.start = 2 /\ window.end = 3
    /\ Len(api.closed) = 2 /\ Len(api.open) = 1
    /\ \E k \in 1..2 : api.closed[k].timestamp = 1
    /\ Len(df) = 2
    /\ ~df[1].closed /\ df[1].timestamp = 3
    /\ df[2].closed /\ df[2].timestamp = 2

-----------------------------------------------------------------------------
(* Claims about repeated runs (checked under SpecRerun) *)

\* what the analyzer holds
Held ==
    [df |-> df, all_trades_df |-> all_trades_df, trade_dfs |-> trade_dfs,
     title_mapping |-> title_mapping, summary_df |-> summary_df,
     winning_df |-> winning_df, losing_df |-> losing_df]

\* what an analyzer holds after __init__ (None and the empty table are not
\* told apart)
HeldAfterInit ==
    [df |-> <<>>, all_trades_df |-> <<>>, trade_dfs |-> <<>>, title_mapping |-> <<>>,
     summary_df |-> <<>>, winning_df |-> <<>>, losing_df |-> <<>>]

\* what a new analyzer can hold after process_trades and create_summary, given
\* the tables positions and trades it loaded
FreshSummaries(positions, trades) ==
    LET agg == Aggregated(positions)
        groups == IF trades = <<>> THEN <<>> ELSE TradeGroups(agg, trades)
        mapping == IF trades = <<>> THEN <<>> ELSE TitleMapping(agg, trades)
        summary == PositionSummary(groups, positions)
    IN  {[df |-> positions, all_trades_df |-> trades, trade_dfs |-> groups,
          title_mapping |-> mapping, summary_df |-> summary,
          winning_df |-> pair[1], losing_df |-> pair[2]] : pair \in WinningLosing(summary)}

\* what a new analyzer can hold after run_full_analysis returned, given the
\* table load_positions built
FreshFrom(a, w, positions) ==
    IF positions = <<>> THEN {HeldAfterInit}
    ELSE UNION {FreshSummaries(WithEventIds(a, positions), trades) :
                    trades \in LoadedTrades(a, WithEventIds(a, positions), w)}

\* what a new analyzer can hold after run_full_analysis returned
FreshAnalyses(a, w) ==
    UNION {FreshFrom(a, w, positions) : positions \in LoadedPositions(a, w)}

\* C15 (as claimed): after run_full_analysis returned a second time on the same
\* analyzer, df, all_trades_df, trade_dfs, title_mapping, summary_df, winning_df
\* and losing_df are what a new analyzer would hold after one run against the
\* second run's responses.
C15_RerunSupersedesPreviousRun ==
    (runs >= 2 /\ an_pc = "done") => Held \in FreshAnalyses(api, window)

-----------------------------------------------------------------------------
(* The end-to-end example (checked under SpecScenario) *)

\* C16: for the wallet with closed rows (A, 50) and (A, -20), the open position
\* (B, cashPnl 5) and the trades BUY 100 @ 0.5 and SELL 50 @ 0.6 on A, the
\* finished pipeline holds the aggregated positions A with realizedPnl 30,
\* closed, and B with realizedPnl 5, not closed, total_invested 50 for A, and
\* portfolio total_pnl 35.
C16_EndToEndExample ==
    (api \in ScenarioApis /\ an_pc = "done") =>
        /\ Len(df_aggregated) = 2
        /\ \E a \in 1..2 : /\ df_aggregated[a].asset = 1
                           /\ df_aggregated[a].realizedPnl = 30
                           /\ df_aggregated[a].closed
        /\ \E b \in 1..2 : /\ df_aggregated[b].asset = 2
                           /\ df_aggregated[b].realizedPnl = 5
                           /\ ~df_aggregated[b].closed
        /\ Len(summary_df) = 1
        /\ summary_df[1].asset = 1
        /\ summary_df[1].total_invested = 50
        /\ portfolio.computed
        /\ portfolio.total_pnl = 35

\* the example's pipeline has finished with both closed rows of A, the BUY and
\* the SELL loaded and the portfolio figures computed
C16_Witness ==
    /\ api \in ScenarioApis
    /\ an_pc = "done"
    /\ Len(df) = 3
    /\ Len(all_trades_df) = 2
    /\ Len(df_aggregated) = 2
    /\ summary_df[1].total_sells = 30
    /\ portfolio.total_pnl = 35

-----------------------------------------------------------------------------
(* Trades and their positions (checked under SpecMatching) *)

\* how often the row x occurs in a table
Count(rows, x) == Cardinality({j \in 1..Len(rows) : rows[j] = x})

\* the entries of self.trade_dfs that hold the trade t
GroupsHolding(t) == {n \in 1..Len(trade_dfs) : Count(trade_dfs[n].trades, t) > 0}

\* C17: after process_trades every trade of all_trades_df whose asset id is that
\* of a position is held by exactly one trade group, the group of the aggregated
\* position with its asset id, as often as the trade table holds it; a trade
\* whose asset id matches no position is in no group; and the groups hold
\* nothing but trades of their own asset.
C17_EveryTradeInOneGroup ==
    HasAggregated =>
        /\ \A k \in 1..Len(all_trades_df) :
              LET t == all_trades_df[k]
              IN  IF \E p \in 1..Len(df) : df[p].asset = t.asset
                  THEN \E n \in 1..Len(trade_dfs) :
                          /\ GroupsHolding(t) = {n}
                          /\ df_aggregated[trade_dfs[n].key].asset = t.asset
                          /\ Count(trade_dfs[n].trades, t) = Count(all_trades_df, t)
                  ELSE GroupsHolding(t) = {}
        /\ \A n \in 1..Len(trade_dfs) : \A j \in 1..Len(trade_dfs[n].trades) :
              /\ trade_dfs[n].trades[j].asset = df_aggregated[trade_dfs[n].key].asset
              /\ Count(all_trades_df, trade_dfs[n].trades[j]) > 0
        /\ \A n, m \in 1..Len(trade_dfs) : trade_dfs[n].key = trade_dfs[m].key => n = m

\* the trade table holds a trade on the wallet's asset 1 and one on an asset it
\* has no position in: the first is in the only group, the second in none
C17_Witness ==
    /\ HasAggregated
    /\ Len(all_trades_df) = 2
    /\ \E k \in 1..2 : all_trades_df[k].asset = 1
    /\ \E k \in 1..2 : all_trades_df[k].asset = OtherOutcomeTrade.asset
    /\ Len(trade_dfs) = 1
    /\ Len(trade_dfs[1].trades) = 1

-----------------------------------------------------------------------------
(* Claims about wallets whose positions end in every way (checked under      *)
(* SpecOutcomes)                                                             *)

\* the time of the earliest trade of an asset in all_trades_df
EarliestTrade(asset_id) ==
    LET times == {all_trades_df[k].timestamp :
                     k \in {j \in 1..Len(all_trades_df) : all_trades_df[j].asset = asset_id}}
    IN  CHOOSE t \in times : \A u \in times : t <= u

\* the rows of a table are ordered by the time of their asset's earliest trade
ByEarliestTrade(rows) ==
    \A k \in 1..Len(rows) - 1 :
        EarliestTrade(rows[k].asset) <= EarliestTrade(rows[k + 1].asset)

\* C25: create_summary leaves in winning_df the summaries with realizedPnl > 0
\* and in losing_df those with realizedPnl < 0: no summary is in both, one with
\* realizedPnl = 0 is in neither, every other summary is in exactly one of the
\* two, once, and each table is ordered by the time of the position's earliest
\* trade, ascending.
C25_WinningLosingPartition ==
    [][(an_pc = "create_summary" /\ an_pc' = "portfolio_summary" /\ df # <<>>) =>
         /\ \A k \in 1..Len(winning_df') :
               winning_df'[k].realizedPnl > 0 /\ RowCount(summary_df', winning_df'[k]) = 1
         /\ \A k \in 1..Len(losing_df') :
               losing_df'[k].realizedPnl < 0 /\ RowCount(summary_df', losing_df'[k]) = 1
         /\ \A k \in 1..Len(summary_df') :
               LET row == summary_df'[k]
               IN  /\ RowCount(winning_df', row) = (IF row.realizedPnl > 0 THEN 1 ELSE 0)
                   /\ RowCount(losing_df', row) = (IF row.realizedPnl < 0 THEN 1 ELSE 0)
         /\ ByEarliestTrade(winning_df')
         /\ ByEarliestTrade(losing_df')]_vars

\* two winning positions come in winning_df in the order of their first
\* trades, the reverse of their order in summary_df, and a break-even position
\* of the summary is in neither table
C25_Witness ==
    /\ an_pc = "portfolio_summary"
    /\ Len(summary_df) = 3
    /\ Len(winning_df) = 2 /\ Len(losing_df) = 0
    /\ winning_df[1].position > winning_df[2].position
    /\ winning_df[1].first_timestamp < winning_df[2].first_timestamp
    /\ \E k \in 1..3 : summary_df[k].realizedPnl = 0

\* the summaries of closed positions, and those among them with a profit, with
\* a loss and at break-even
ClosedSummaries == {k \in 1..Len(summary_df) : summary_df[k].closed}
Wins == {k \in ClosedSummaries : summary_df[k].realizedPnl > 0}
Losses == {k \in ClosedSummaries : summary_df[k].realizedPnl < 0}
BreakEvens == {k \in ClosedSummaries : summary_df[k].realizedPnl = 0}

\* C30: the win_rate of portfolio_summary is 100 * (closed summaries with
\* realizedPnl > 0) / (closed summaries), and 0 when no summary is closed; it
\* lies between 0 and 100; a closed summary with realizedPnl = 0 is counted
\* among the closed ones but neither as winning nor as losing.
C30_WinRate ==
    PortfolioComputed =>
        /\ portfolio.win_rate =
              (IF ClosedSummaries = {} THEN <<0, 1>>
               ELSE <<100 * Cardinality(Wins), Cardinality(ClosedSummaries)>>)
        /\ portfolio.win_rate[2] > 0
        /\ 0 <= portfolio.win_rate[1]
        /\ portfolio.win_rate[1] <= 100 * portfolio.win_rate[2]
        /\ portfolio.closed_count = Cardinality(ClosedSummaries)
        /\ portfolio.winning_count = Cardinality(Wins)
        /\ portfolio.losing_count = Cardinality(Losses)
        /\ portfolio.closed_count
              = portfolio.winning_count + portfolio.losing_count + Cardinality(BreakEvens)

\* three closed positions, one with a profit, one at break-even and one with a
\* loss, gave a win rate of 100/3 per cent
C30_Witness ==
    /\ PortfolioComputed
    /\ Cardinality(ClosedSummaries) = 3
    /\ Cardinality(Wins) = 1 /\ Cardinality(BreakEvens) = 1 /\ Cardinality(Losses) = 1
    /\ portfolio.win_rate = <<100, 3>>

-----------------------------------------------------------------------------
(* Claims about the scheduled job (checked under SpecJob) *)

\* the rows the file gains by the step
RowsGained == SubSeq(store'.rows, Len(store.rows) + 1, Len(store'.rows))

\* the snapshot attempt made by the step passed the quality gate: the
\* combinations missing from its table are not more than 30% of all
SnapshotSucceeded ==
    LET total == total_scrapes(JobSnapArgs)
    IN  ~quality_too_low(total - Len(RowsGained) \div UsersPerScrape, total)

\* C31: scrape_with_retry makes its snapshot attempts one after the other and
\* never more than max_retries of them; an attempt that succeeds ends the job,
\* which returns that attempt's table; a failed attempt is followed by another
\* unless it was the max_retries-th, whose error is raised; after returning or
\* raising no attempt is made.
C31_JobRetriesFullSnapshot ==
    [][ /\ job_pc = "loop" =>
              /\ job_attempt < job_max_retries
              /\ job_calls = job_attempt
              /\ job_calls' = job_calls + 1
              /\ SnapshotSucceeded => (job_pc' = "done" /\ job_result' = RowsGained)
              /\ (~SnapshotSucceeded /\ job_attempt < job_max_retries - 1) =>
                    (job_pc' = "loop" /\ job_attempt' = job_attempt + 1)
              /\ (~SnapshotSucceeded /\ job_attempt = job_max_retries - 1) =>
                    job_pc' = "raised"
        /\ job_pc # "loop" => (job_calls' = job_calls /\ job_pc' = job_pc)
      ]_vars

\* a job allowed three attempts returned the table of its second attempt
C31_Witness ==
    /\ job_pc = "done"
    /\ job_max_retries = 3
    /\ job_calls = 2
    /\ Len(job_result) = total_scrapes(JobSnapArgs) * UsersPerScrape
    /\ job_result[1].timestamp = CaptureTime + 1

\* the rows the file has gained since the job started
RowsGainedByJob == SelectSeq(store.rows, LAMBDA row : row.timestamp # EarlierCaptureTime)

\* C34 (as claimed): when the job is over the file has gained the rows of at
\* most one snapshot attempt, and after a job that returned these are the rows
\* of the returned table: an attempt that failed the quality gate left none.
C34_JobStoresOneSnapshot ==
    job_pc \in {"done", "raised"} =>
        /\ Cardinality({RowsGainedByJob[k].timestamp : k \in 1..Len(RowsGainedByJob)}) <= 1
        /\ (job_pc = "done" /\ job_calls > 0) => RowsGainedByJob = job_result

-----------------------------------------------------------------------------
(* Claims about open positions without an end date (checked under           *)
(* SpecUndated)                                                              *)

\* the rows of a table that carry the sentinel 2099-12-31
SentinelRows(rows) == {k \in 1..Len(rows) : rows[k].timestamp = far_future}

\* the API's open positions without an end date
Undated == {k \in 1..Len(api.open) : api.open[k].endDate = None}

\* load_positions has just built the table
PositionsLoaded == an_pc = "load_positions" /\ an_pc' \in {"fetch_event_ids", "done"}

\* the window has an end date, which is earlier than the sentinel
WindowEndsBeforeSentinel == Truthy(window.end) /\ window.end < far_future

====
